---- MODULE Spec2Model ----
(***************************************************************************)
(* Wavebreaker (wavebreaker-rs): score submission and leaderboard engine.  *)
(*                                                                         *)
(* The SQL store (players, songs, scores, rivalries) and the Redis sorted  *)
(* set "leaderboard" are the shared state.  Every request handler and      *)
(* management command is a task that runs in a slot; each action below is  *)
(* one SQL query or one Redis command of that task, i.e. the code between  *)
(* two .await suspension points.                                           *)
(*                                                                         *)
(* The game-facing handlers start with ticket_auth, which keeps validated  *)
(* Steam tickets in Redis; fetch_song_id resolves a song through the songs *)
(* and extra_song_info tables and spawns the MusicBrainz enrichment.       *)
(***************************************************************************)
EXTENDS Integers, Sequences, FiniteSets, TLC

(***************************************************************************)
(* Bounds of the exploration.                                              *)
(***************************************************************************)
\* number of requests / commands started in one behaviour
MaxOps == 3
\* number of tasks that can be in flight at the same time
NumSlots == 2

Slots == 1..NumSlots

\* player ids of the two registered Steam accounts
Players == {1, 2}
\* persona names Steam reports for an account
Names == {"alice", "bob"}
\* ids of the two songs that exist at start
SongIds == {1, 2}
\* the league rides are submitted in (League::Elite)
SubmitLeagues == {2}
\* submitted score values (scenarios S1, S2, S4 of the specification)
ScoreValues == {400000, 508143, 600000}

\* Steam game auth tickets a client can present: the tickets of the two
\* registered accounts and one ticket Steam rejects
Tickets == {"T1", "T2", "TX"}
\* Expiration::EX(60 * 60 * 8) of a steamticket key, in hours
TicketTtlHours == 8
\* the time that passes between two observations of the clock, in hours
TickHours == 4
\* the wall clock stops at this hour
MaxNow == 16

\* recording MBIDs a client can send: the one stored for song 2 (scenario S5)
\* and one no song carries
Mbids == {"6c7e91a6", "51517639"}
\* song titles a client can send, as the sequence of their blank-separated
\* parts
ResolveTitles == {<<"Dyad">>, <<"Dyad", "[as-steep]">>}
\* artist tags a client can send
ResolveArtists == {"JamieP", "jamie paige", "Inverted Silence"}

(***************************************************************************)
(* The part of a SendRideRequest that is stored verbatim on the score row. *)
(***************************************************************************)
RideA ==
    [track_shape |-> <<68, 65, 62, 58>>, xstats |-> <<478, 4, 0>>,
     density |-> 994, vehicle |-> 10,
     feats |-> <<"Ironmode", "Clean Finish">>,
     song_length |-> 28224, gold_threshold |-> 84490, iss |-> 0, isj |-> 0]

RideB ==
    [track_shape |-> <<1, 2>>, xstats |-> <<7>>,
     density |-> 500, vehicle |-> 3,
     feats |-> <<"Seeing Red">>,
     song_length |-> 28224, gold_threshold |-> 100000, iss |-> 1, isj |-> 1]

Rides == {RideA, RideB}

VARIABLES
    players,      \* SQL table players: id -> [username, account_type,
                  \* steam_account_num, avatar_url]
    songs,        \* SQL table songs: set of rows
    scores,       \* SQL table scores: set of rows
    rivalries,    \* SQL table rivalries: set of rows, key (challenger_id,
                  \* rival_id)
    leaderboard,  \* Redis sorted set "leaderboard": member -> score
    nextScoreId,  \* serial sequence of scores.id
    clock,        \* OffsetDateTime::now_utc(), as a logical time
    req,          \* the task running in each slot: its position and locals
    ops,          \* number of requests started so far
    hist,         \* history, per PB key: the send_ride requests answered
                  \* "allgood" (hist) and their highest score (best)
    extra_song_info, \* SQL table extra_song_info: set of rows
    nextSongId,   \* serial sequence of songs.id
    nextExtraId,  \* serial sequence of extra_song_info.id
    tickets,      \* Redis keys steamticket:<ticket>: value and expiry
    wall,         \* wall clock, in hours
    steam,        \* history, per ticket: AuthenticateUserTicket calls made
                  \* and accepted, the hours of the last SET of its key
                  \* and of the last successful ticket_auth
    greq,         \* the game-facing task of each slot: ticket_auth and
                  \* fetch_song_id
    spawned,      \* tasks started with tokio::spawn, not yet finished
    lastres,      \* history: the last fetch_song_id request answered, if no
                  \* send_ride came after it
    sessions,     \* Redis keys session:<token>: value and expiry
    today,        \* wall clock, in days
    sreq,         \* the task that works on sessions: its position and locals
    shist,        \* history, per token: the player create_session returned
                  \* it for, the day it was created or last verified, and
                  \* whether a delete operation for it has completed
    calc,         \* a call of a pure function: its arguments and its result
    api           \* the last request whose response is recorded, and that
                  \* response

vars == <<players, songs, scores, rivalries, leaderboard, nextScoreId, clock,
          req, ops, hist, extra_song_info, nextSongId, nextExtraId, tickets,
          wall, steam, greq, spawned, lastres,
          sessions, today, sreq, shist, calc, api>>

\* what the game-facing front of the server adds to the state
front == <<extra_song_info, nextSongId, nextExtraId, tickets, wall, steam,
           greq, spawned, lastres>>

sess == <<sessions, today, sreq, shist>>

store == <<players, songs, scores, rivalries, leaderboard, nextScoreId, clock>>

(***************************************************************************)
(* Pure functions.                                                         *)
(***************************************************************************)

\* f64::round of the quotient n / d: half away from zero (d > 0)
Round(n, d) ==
    IF n >= 0 THEN (2 * n + d) \div (2 * d)
    ELSE 0 - ((2 * (0 - n) + d) \div (2 * d))

\* mutant: the league number itself is taken as the multiplier
Score_calc_skill_points_NoPlusOne(r) ==
    LET multiplier == r.league * 100
    IN  Round(r.score * multiplier, r.gold_threshold)

\* Score::calc_skill_points
Score_calc_skill_points(r) ==
    LET multiplier == (r.league + 1) * 100
    IN  Round(r.score * multiplier, r.gold_threshold)

RECURSIVE SumSkillPoints(_)
SumSkillPoints(S) ==
    IF S = {} THEN 0
    ELSE LET r == CHOOSE x \in S : TRUE
         IN  Score_calc_skill_points(r) + SumSkillPoints(S \ {r})

\* Player::calc_skill_points, on the rows the query loaded
Player_calc_skill_points(p, rows) ==
    SumSkillPoints({r \in rows : r.player_id = p})

\* Redis ZINCRBY leaderboard delta member
Zincrby(lb, member, delta) ==
    IF member \in DOMAIN lb
    THEN [lb EXCEPT ![member] = @ + delta]
    ELSE lb @@ (member :> delta)

\* mutant: ZADD without NX, the entry is reset to 0
ZaddNx_Reset(lb, member) ==
    IF member \in DOMAIN lb THEN [lb EXCEPT ![member] = 0]
    ELSE lb @@ (member :> 0)

\* Redis ZADD leaderboard NX 0 member
ZaddNx(lb, member) ==
    IF member \in DOMAIN lb THEN lb ELSE lb @@ (member :> 0)

\* mutant: the value is added to the entry
Zadd_Incr(lb, member, value) ==
    IF member \in DOMAIN lb
    THEN [lb EXCEPT ![member] = @ + value]
    ELSE lb @@ (member :> value)

\* Redis ZADD leaderboard score member
Zadd(lb, member, value) ==
    IF member \in DOMAIN lb
    THEN [lb EXCEPT ![member] = value]
    ELSE lb @@ (member :> value)

\* Player::get_skill_points: ZSCORE leaderboard member, 0 when absent
get_skill_points(p) ==
    IF p \in DOMAIN leaderboard THEN leaderboard[p] ELSE 0

\* mutant: the key lacks the player
KeyRows_AnyPlayer(rows, p, s, l) ==
    {r \in rows : r.song_id = s /\ r.league = l}

\* rows of the scores table with the personal-best key (player, song, league)
KeyRows(rows, p, s, l) ==
    {r \in rows : r.player_id = p /\ r.song_id = s /\ r.league = l}

\* the sequence of the rows of S in ascending id
RECURSIVE ById(_)
ById(S) ==
    IF S = {} THEN <<>>
    ELSE LET r == CHOOSE x \in S : \A y \in S : x.id <= y.id
         IN  <<r>> \o ById(S \ {r})

(***************************************************************************)
(* Tasks.                                                                  *)
(***************************************************************************)
NoRide ==
    [track_shape |-> <<>>, xstats |-> <<>>, density |-> 0, vehicle |-> 0,
     feats |-> <<>>, song_length |-> 0, gold_threshold |-> 1,
     iss |-> 0, isj |-> 0]

NoBeat ==
    [dethroned |-> FALSE, friend |-> FALSE, rival_name |-> "",
     rival_score |-> 0, my_score |-> 0, reign_seconds |-> 0]

\* bearer tokens: 24 random alphanumeric characters
SessionTokens == {"tokA", "tokB", "tokC"}

\* EXPIRE_IN_SECS, in days
SessionTtlDays == 21

TickDays == 7

MaxDay == 35

\* no key session:<token>
NoKey == [present |-> FALSE, player_id |-> 0, volatile |-> FALSE, expires |-> 0]

IdleSreq ==
    [op |-> "none", pc |-> "idle", token |-> "", player |-> 0, value |-> 0,
     ok |-> FALSE, todo |-> {}]

\* rivalries.find((a, b)): the rows with that key
FindRivalry(rows, a, b) ==
    {x \in rows : x.challenger_id = a /\ x.rival_id = b}

IdleReq ==
    [op |-> "none", pc |-> "idle",
     player |-> 0, song |-> 0, league |-> 0, score |-> 0, ride |-> NoRide,
     current_top |-> {}, top_name |-> "", reign |-> 0, beat |-> NoBeat,
     existing |-> {}, result |-> {},
     cur |-> {}, todo |-> <<>>, tscores |-> <<>>, tidx |-> 0, target |-> 0,
     ret |-> "", skill_points |-> 0, meta_error |-> FALSE,
     raw_shape |-> <<>>, raw_xstats |-> <<>>, unparsed |-> FALSE,
     should_alias |-> FALSE]

Free(k) == req[k].pc = "idle"

AllFree == \A k \in Slots : Free(k)

MaxListLen == 3

MaxStrLen == 3

\* the i32 values of the lists
XValues == {-2147483647 - 1, -12, 0, 7, 2147483647}

\* the characters of the strings handed to split_x_separated
XChars == {"1", "2", "-", "x", "A"}

MaxPieces == 4

\* the pieces the titles are put together from: text, a blank, two tags, a
\* tag without content, a tag that is not closed, a bracket, a hyphen
TitlePieces ==
    {<<"T">>, <<" ">>, <<"[", "a", "s", "-", "a", "]">>,
     <<"[", "a", "s", "-", "B", "1", "]">>, <<"[", "a", "s", "-", "]">>,
     <<"[", "a", "s", "-", "a">>, <<"]">>, <<"-">>}

\* no call of a pure function
NoCalc ==
    [fn |-> "none", done |-> FALSE, str |-> <<>>, list |-> <<>>,
     ok |-> FALSE, out_str |-> <<>>, out_list |-> <<>>]

\* no request whose response is recorded
NoApi ==
    [endpoint |-> "none", page |-> 0, page_size |-> 0, player |-> 0,
     id |-> 0, status |-> "", results |-> <<>>, cause |-> "",
     before |-> <<>>, role |-> "", target |-> 0, alias |-> FALSE]

\* the tables, the Redis keys and the tasks after start-up
InitState ==
    /\ api = NoApi
    /\ players = [p \in Players |->
                    [username |-> IF p = 1 THEN "alice" ELSE "bob",
                     account_type |-> "User", steam_account_num |-> p,
                     avatar_url |-> "a.png"]]
    /\ songs = {[id |-> 1, title |-> "Sendoff", artist |-> "Inverted Silence",
                 modifiers |-> <<>>],
                [id |-> 2, title |-> "Dyad", artist |-> "Jamie Paige",
                 modifiers |-> <<>>]}
    /\ scores = {}
    /\ rivalries = {[challenger_id |-> 1, rival_id |-> 2,
                     established_at |-> 0]}
    /\ leaderboard = [p \in Players |-> 0]
    /\ nextScoreId = 1
    /\ clock = 1
    /\ req = [k \in Slots |-> IdleReq]
    /\ ops = 0
    /\ hist = [p \in Players |-> [s \in SongIds |-> [l \in SubmitLeagues |->
                 [attempts |-> 0, best |-> 0]]]]
    /\ extra_song_info =
          {[id |-> 1, song_id |-> 2, mbid |-> "6c7e91a6",
            musicbrainz_title |-> "Dyad", musicbrainz_artist |-> "Jamie Paige",
            aliases_title |-> <<>>, aliases_artist |-> <<"JamieP">>]}
    /\ nextSongId = 3
    /\ nextExtraId = 2
    /\ tickets = [t \in Tickets |-> [steam_id |-> 0, expires |-> 0]]
    /\ wall = 0
    /\ steam = [t \in Tickets |->
                  [calls |-> 0, accepted |-> 0, validated |-> FALSE,
                   stored_at |-> 0, last_use |-> 0]]
    /\ greq = [k \in Slots |->
                 [op |-> "none", pc |-> "idle", ticket |-> "", steam_id |-> 0,
                  hit |-> FALSE, error |-> "", status |-> "",
                  song |-> 0, league |-> 0, score |-> 0, ride |-> NoRide,
                  title |-> <<>>, artist |-> "", mbid |-> "",
                  modifiers |-> <<>>, player |-> 0, song_id |-> 0,
                  created |-> FALSE, existing |-> {},
                  snums |-> <<>>, friend_nums |-> <<>>, todo |-> {},
                  found |-> 0]]
    /\ spawned = {}
    /\ lastres = [title |-> <<>>, artist |-> "", mbid |-> "", song_id |-> 0]
    /\ sessions = [t \in SessionTokens |-> NoKey]
    /\ today = 0
    /\ sreq = IdleSreq
    /\ shist = [t \in SessionTokens |->
                  [generated |-> FALSE, issued_to |-> 0, last_use |-> 0,
                   removed |-> FALSE]]

Init == InitState /\ calc = NoCalc

(***************************************************************************)
(* send_ride (game/gameplay.rs) with NewScore::create_or_update inlined.   *)
(***************************************************************************)

\* the request arrives; Player::find_by_steam_id(..).first()
SendRide_FindPlayer(k, p, s, l, sc, rd) ==
    /\ Free(k)
    /\ ops < MaxOps
    /\ ops' = ops + 1
    /\ req' = [req EXCEPT ![k] =
                 IF p \in DOMAIN players
                 THEN [IdleReq EXCEPT !.op = "send_ride", !.pc = "sr_find_song",
                                      !.player = p, !.song = s, !.league = l,
                                      !.score = sc, !.ride = rd]
                 ELSE IdleReq]
    /\ UNCHANGED <<store, hist>>

\* songs.find(payload.song_id).first(), NOT_FOUND when there is no such song
SendRide_FindSong(k) ==
    /\ req[k].pc = "sr_find_song"
    /\ req' = [req EXCEPT ![k] =
                 IF \E g \in songs : g.id = req[k].song
                 THEN [@ EXCEPT !.pc = "sr_current_top"]
                 ELSE IdleReq]
    /\ UNCHANGED <<store, ops, hist>>

\* the sentinel BeatScore of a song without a score by another player
SentinelBeat ==
    [dethroned |-> FALSE, friend |-> FALSE, rival_name |-> "No one",
     rival_score |-> 143, my_score |-> 0, reign_seconds |-> 0]

\* BeatScore of a submission against the top score current_top
BeatScore(top, top_name, reign, mutual, payload_score) ==
    [dethroned |-> top.score < payload_score,
     friend |-> mutual,
     rival_name |-> top_name,
     rival_score |-> top.score,
     my_score |-> payload_score,
     reign_seconds |-> reign]

\* mutant: the filter player_id.ne(player.id) is missing
CurrentTopCandidates_WithSelf(rows, plrs, s, l, p) ==
    {r \in rows : /\ r.player_id \in DOMAIN plrs
                  /\ r.song_id = s
                  /\ r.league = l}

\* rows the current_top query selects from: scores joined with players,
\* of the song and league, by another player
CurrentTopCandidates(rows, plrs, s, l, p) ==
    {r \in rows : /\ r.player_id \in DOMAIN plrs
                  /\ r.song_id = s
                  /\ r.league = l
                  /\ r.player_id # p}

\* "Check the song for a top score by another player": order(score.desc()).first()
SendRide_CurrentTop(k) ==
    /\ req[k].pc = "sr_current_top"
    /\ LET r == req[k]
           cand == CurrentTopCandidates(scores, players, r.song, r.league, r.player)
       IN  IF cand = {}
           THEN req' = [req EXCEPT ![k] = [@ EXCEPT !.pc = "cu_first",
                                                    !.beat = SentinelBeat]]
           ELSE \E top \in cand :
                  /\ \A o \in cand : o.score <= top.score
                  /\ req' = [req EXCEPT ![k] =
                               [@ EXCEPT !.pc = "sr_rivalry",
                                         !.current_top = {top},
                                         !.top_name = players[top.player_id].username,
                                         !.reign = clock - top.submitted_at]]
    /\ UNCHANGED <<store, ops, hist>>

\* rivalries.find((player.id, current_top.1.id)).first()
SendRide_Rivalry(k) ==
    /\ req[k].pc = "sr_rivalry"
    /\ LET r == req[k]
           top == CHOOSE t \in r.current_top : TRUE
       IN  req' = [req EXCEPT ![k] =
                     IF FindRivalry(rivalries, r.player, top.player_id) # {}
                     THEN [@ EXCEPT !.pc = "sr_is_mutual"]
                     ELSE [@ EXCEPT !.pc = "cu_first",
                                    !.beat = BeatScore(top, r.top_name, r.reign,
                                                       FALSE, r.score)]]
    /\ UNCHANGED <<store, ops, hist>>

\* mutant: a rivalry counts as mutual without the second query
SendRide_IsMutual_OneSided(k) ==
    /\ req[k].pc = "sr_is_mutual"
    /\ LET r == req[k]
           top == CHOOSE t \in r.current_top : TRUE
       IN  req' = [req EXCEPT ![k] =
                     [@ EXCEPT !.pc = "cu_first",
                               !.beat = BeatScore(top, r.top_name, r.reign,
                                                  TRUE, r.score)]]
    /\ UNCHANGED <<store, ops, hist>>

\* Rivalry::is_mutual
SendRide_IsMutual(k) ==
    /\ req[k].pc = "sr_is_mutual"
    /\ LET r == req[k]
           top == CHOOSE t \in r.current_top : TRUE
           mutual == FindRivalry(rivalries, top.player_id, r.player) # {}
       IN  req' = [req EXCEPT ![k] =
                     [@ EXCEPT !.pc = "cu_first",
                               !.beat = BeatScore(top, r.top_name, r.reign,
                                                  mutual, r.score)]]
    /\ UNCHANGED <<store, ops, hist>>

\* mutant: a tie replaces the stored row
IsNewPB_OrEqual(existing_score, new_score) == existing_score <= new_score

\* the predicate of create_or_update: the submission replaces the stored row
IsNewPB(existing_score, new_score) == existing_score < new_score

\* mutant: the old skill points are not subtracted before the row is updated
CreateOrUpdate_First_NoSub(k) ==
    /\ req[k].pc = "cu_first"
    /\ LET r == req[k]
           found == KeyRows(scores, r.player, r.song, r.league)
       IN  IF found = {}
           THEN req' = [req EXCEPT ![k] = [@ EXCEPT !.pc = "cu_insert"]]
           ELSE \E e \in found :
                  req' = [req EXCEPT ![k] =
                            IF IsNewPB(e.score, r.score)
                            THEN [@ EXCEPT !.pc = "cu_update", !.existing = {e}]
                            ELSE [@ EXCEPT !.pc = "sr_meta_find",
                                           !.existing = {e}, !.result = {e}]]
    /\ UNCHANGED <<store, ops, hist>>

\* create_or_update: the read of the existing row of (player, song, league)
CreateOrUpdate_First(k) ==
    /\ req[k].pc = "cu_first"
    /\ LET r == req[k]
           found == KeyRows(scores, r.player, r.song, r.league)
       IN  IF found = {}
           THEN req' = [req EXCEPT ![k] = [@ EXCEPT !.pc = "cu_insert"]]
           ELSE \E e \in found :
                  req' = [req EXCEPT ![k] =
                            IF IsNewPB(e.score, r.score)
                            THEN [@ EXCEPT !.pc = "cu_zincrby_sub", !.existing = {e}]
                            ELSE [@ EXCEPT !.pc = "sr_meta_find",
                                           !.existing = {e}, !.result = {e}]]
    /\ UNCHANGED <<store, ops, hist>>

\* "Subtract the skill points of the old score from the Redis leaderboard"
CreateOrUpdate_ZincrbySub(k) ==
    /\ req[k].pc = "cu_zincrby_sub"
    /\ LET e == CHOOSE x \in req[k].existing : TRUE
           sub_amount == 0 - Score_calc_skill_points(e)
       IN  leaderboard' = Zincrby(leaderboard, e.player_id, sub_amount)
    /\ req' = [req EXCEPT ![k] = [@ EXCEPT !.pc = "cu_update"]]
    /\ UNCHANGED <<players, songs, scores, rivalries, nextScoreId, clock, ops,
                   hist>>

\* the row an UPDATE of create_or_update makes of row x
UpdatedRow(x, r, now) ==
    [id |-> x.id, song_id |-> x.song_id, player_id |-> x.player_id,
     league |-> x.league,
     submitted_at |-> now,
     play_count |-> x.play_count + 1,
     score |-> r.score,
     track_shape |-> r.ride.track_shape, xstats |-> r.ride.xstats,
     density |-> r.ride.density, vehicle |-> r.ride.vehicle,
     feats |-> r.ride.feats, song_length |-> r.ride.song_length,
     gold_threshold |-> r.ride.gold_threshold,
     iss |-> r.ride.iss, isj |-> r.ride.isj]

\* diesel::update(scores).filter(player, song, league).set(..).get_result()
CreateOrUpdate_Update(k) ==
    /\ req[k].pc = "cu_update"
    /\ LET r == req[k]
           hit == KeyRows(scores, r.player, r.song, r.league)
       IN  IF hit = {}
           THEN \* get_result finds no row: "Failed to update score"
                /\ req' = [req EXCEPT ![k] = IdleReq]
                /\ UNCHANGED <<scores, clock>>
           ELSE /\ scores' = (scores \ hit) \cup
                               {UpdatedRow(x, r, clock) : x \in hit}
                /\ clock' = clock + 1
                /\ \E x \in hit :
                     req' = [req EXCEPT ![k] =
                               [@ EXCEPT !.pc = "cu_zincrby_add",
                                         !.result = {UpdatedRow(x, r, clock)}]]
    /\ UNCHANGED <<players, songs, rivalries, leaderboard, nextScoreId, ops,
                   hist>>

\* play_count of a freshly inserted row (column default)
DefaultPlayCount == 1

\* the row an INSERT of NewScore makes
InsertedRow(newid, r, now) ==
    [id |-> newid, song_id |-> r.song, player_id |-> r.player,
     league |-> r.league,
     submitted_at |-> now,
     play_count |-> DefaultPlayCount,
     score |-> r.score,
     track_shape |-> r.ride.track_shape, xstats |-> r.ride.xstats,
     density |-> r.ride.density, vehicle |-> r.ride.vehicle,
     feats |-> r.ride.feats, song_length |-> r.ride.song_length,
     gold_threshold |-> r.ride.gold_threshold,
     iss |-> r.ride.iss, isj |-> r.ride.isj]

\* diesel::insert_into(scores).values(self).get_result()
CreateOrUpdate_Insert(k) ==
    /\ req[k].pc = "cu_insert"
    /\ LET new_score == InsertedRow(nextScoreId, req[k], clock)
       IN  /\ scores' = scores \cup {new_score}
           /\ req' = [req EXCEPT ![k] = [@ EXCEPT !.pc = "cu_zincrby_add",
                                                  !.result = {new_score}]]
    /\ nextScoreId' = nextScoreId + 1
    /\ clock' = clock + 1
    /\ UNCHANGED <<players, songs, rivalries, leaderboard, ops, hist>>

\* "Add the skill points of the new score to the Redis leaderboard"
CreateOrUpdate_ZincrbyAdd(k) ==
    /\ req[k].pc = "cu_zincrby_add"
    /\ LET n == CHOOSE x \in req[k].result : TRUE
           add_amount == Score_calc_skill_points(n)
       IN  leaderboard' = Zincrby(leaderboard, n.player_id, add_amount)
    /\ req' = [req EXCEPT ![k] = [@ EXCEPT !.pc = "sr_meta_find"]]
    /\ UNCHANGED <<players, songs, scores, rivalries, nextScoreId, clock, ops,
                   hist>>

\* Ok(Xml(SendRideResponse { status: "allgood", .. }))
SendRide_Respond(k) ==
    /\ req[k].pc = "sr_respond"
    /\ hist' = [hist EXCEPT ![req[k].player][req[k].song][req[k].league] =
                  [attempts |-> @.attempts + 1,
                   best |-> IF @.best < req[k].score THEN req[k].score
                            ELSE @.best]]
    /\ req' = [req EXCEPT ![k] = IdleReq]
    /\ UNCHANGED <<store, ops>>

(***************************************************************************)
(* Score::delete (models/scores.rs), called by delete_score, Song::delete  *)
(* and Song::merge_into.  req.cur is the Score it is called on, req.ret    *)
(* the caller.                                                             *)
(***************************************************************************)

\* the first matching element of target_scores for own_score, 0 if none:
\* target_scores.iter_mut().find(same player_id and league)
FindTargetScore(tscores, own) ==
    LET hits == {i \in 1..Len(tscores) :
                    /\ tscores[i].player_id = own.player_id
                    /\ tscores[i].league = own.league}
    IN  IF hits = {} THEN 0 ELSE CHOOSE i \in hits : \A j \in hits : i <= j

\* merge_into: the head of the loop "for mut own_score in own_scores"; after
\* the loop the alias step if should_alias, else the call of self.delete
MergeLoop(r) ==
    IF r.todo = <<>>
    THEN [r EXCEPT !.pc = IF r.should_alias THEN "mg_alias" ELSE "sg_load",
                   !.cur = {}, !.tidx = 0]
    ELSE LET own == Head(r.todo)
             i == FindTargetScore(r.tscores, own)
         IN  IF i = 0
             THEN [r EXCEPT !.pc = "mg_move_own", !.cur = {}, !.tidx = 0]
             ELSE IF r.tscores[i].score < own.score
                  THEN [r EXCEPT !.pc = "sd_zincrby", !.ret = "merge_target",
                                 !.cur = {r.tscores[i]}, !.tidx = i]
                  ELSE [r EXCEPT !.pc = "mg_save_target", !.cur = {}, !.tidx = i,
                                 !.tscores[i].play_count = @ + own.play_count]

\* mutant: the song is deleted without deleting its scores one by one
SongDeleteLoop_NoCascade(r) ==
    [r EXCEPT !.pc = "sg_delete_song", !.cur = {}]

\* Song::delete: the loop "for score in ass_scores" and the delete after it
SongDeleteLoop(r) ==
    IF r.todo = <<>>
    THEN [r EXCEPT !.pc = "sg_delete_song", !.cur = {}]
    ELSE [r EXCEPT !.pc = "sd_zincrby", !.ret = "song_delete",
                   !.cur = {Head(r.todo)}]

\* mutant: the leaderboard is not touched
ScoreDelete_Zincrby_Skip(k) ==
    /\ req[k].pc = "sd_zincrby"
    /\ req' = [req EXCEPT ![k] = [@ EXCEPT !.pc = "sd_delete"]]
    /\ UNCHANGED <<store, ops, hist>>

\* "Subtract the skill points from the player on Redis"
ScoreDelete_Zincrby(k) ==
    /\ req[k].pc = "sd_zincrby"
    /\ LET c == CHOOSE x \in req[k].cur : TRUE
           sub_amount == 0 - Score_calc_skill_points(c)
       IN  leaderboard' = Zincrby(leaderboard, c.player_id, sub_amount)
    /\ req' = [req EXCEPT ![k] = [@ EXCEPT !.pc = "sd_delete"]]
    /\ UNCHANGED <<players, songs, scores, rivalries, nextScoreId, clock, ops,
                   hist>>

\* diesel::delete(scores.filter(id.eq(self.id))), then back to the caller
ScoreDelete_Delete(k) ==
    /\ req[k].pc = "sd_delete"
    /\ LET c == CHOOSE x \in req[k].cur : TRUE
       IN  scores' = {x \in scores : x.id # c.id}
    /\ req' = [req EXCEPT ![k] =
                 CASE req[k].ret = "delete_score" -> IdleReq
                   [] req[k].ret = "song_delete" ->
                        SongDeleteLoop([@ EXCEPT !.todo = Tail(@)])
                   [] req[k].ret = "merge_target" ->
                        [@ EXCEPT !.pc = "mg_save_own", !.cur = {}]
                   [] req[k].ret = "merge_own" ->
                        MergeLoop([@ EXCEPT !.todo = Tail(@)])]
    /\ UNCHANGED <<players, songs, rivalries, leaderboard, nextScoreId, clock,
                   ops, hist>>

\* delete_score / Command::DeleteScore: scores.find(id).first()
DeleteScore_Find(k, id) ==
    /\ Free(k)
    /\ ops < MaxOps
    /\ ops' = ops + 1
    /\ req' = [req EXCEPT ![k] =
                 IF \E x \in scores : x.id = id
                 THEN [IdleReq EXCEPT !.op = "delete_score", !.pc = "sd_zincrby",
                                      !.ret = "delete_score",
                                      !.cur = {x \in scores : x.id = id}]
                 ELSE IdleReq]
    /\ UNCHANGED <<store, hist>>

(***************************************************************************)
(* Song::delete (models/songs.rs).                                         *)
(***************************************************************************)

\* Command::DeleteSong: songs.find(id_to_delete).first()
DeleteSong_Find(k, s) ==
    /\ Free(k)
    /\ ops < MaxOps
    /\ ops' = ops + 1
    /\ req' = [req EXCEPT ![k] =
                 IF \E g \in songs : g.id = s
                 THEN [IdleReq EXCEPT !.op = "delete_song", !.pc = "sg_load",
                                      !.song = s]
                 ELSE IdleReq]
    /\ UNCHANGED <<store, hist>>

\* scores.filter(song_id.eq(self.id)).load()
SongDelete_Load(k) ==
    /\ req[k].pc = "sg_load"
    /\ req' = [req EXCEPT ![k] =
                 SongDeleteLoop([@ EXCEPT !.todo =
                     ById({x \in scores : x.song_id = req[k].song})])]
    /\ UNCHANGED <<store, ops, hist>>

\* diesel::delete(songs.filter(id.eq(self.id)))
SongDelete_DeleteSong(k) ==
    /\ req[k].pc = "sg_delete_song"
    /\ songs' = {g \in songs : g.id # req[k].song}
    /\ req' = [req EXCEPT ![k] = IdleReq]
    /\ UNCHANGED <<players, scores, rivalries, leaderboard, nextScoreId, clock,
                   ops, hist>>

(***************************************************************************)
(* Song::merge_into (models/songs.rs), from Command::MergeSongs.           *)
(***************************************************************************)

\* Command::MergeSongs: songs.find(id_to_merge).first()
Merge_FindSource(k, src, tgt) ==
    /\ Free(k)
    /\ ops < MaxOps
    /\ ops' = ops + 1
    /\ req' = [req EXCEPT ![k] =
                 IF \E g \in songs : g.id = src
                 THEN [IdleReq EXCEPT !.op = "merge_songs",
                                      !.pc = "mg_find_target",
                                      !.song = src, !.target = tgt]
                 ELSE IdleReq]
    /\ UNCHANGED <<store, hist>>

\* songs.find(target).first()
Merge_FindTarget(k) ==
    /\ req[k].pc = "mg_find_target"
    /\ req' = [req EXCEPT ![k] =
                 IF \E g \in songs : g.id = req[k].target
                 THEN [@ EXCEPT !.pc = "mg_load_target"]
                 ELSE IdleReq]
    /\ UNCHANGED <<store, ops, hist>>

\* Score::belonging_to(&target).load()
Merge_LoadTarget(k) ==
    /\ req[k].pc = "mg_load_target"
    /\ req' = [req EXCEPT ![k] =
                 [@ EXCEPT !.pc = "mg_load_own",
                           !.tscores = ById({x \in scores :
                                               x.song_id = req[k].target})]]
    /\ UNCHANGED <<store, ops, hist>>

\* Score::belonging_to(&self).load(), and the first turn of the loop
Merge_LoadOwn(k) ==
    /\ req[k].pc = "mg_load_own"
    /\ req' = [req EXCEPT ![k] =
                 MergeLoop([@ EXCEPT !.todo =
                     ById({x \in scores : x.song_id = req[k].song})])]
    /\ UNCHANGED <<store, ops, hist>>

\* the target's score was lower and is deleted: own_score.song_id = target.id,
\* own_score.play_count += target_score.play_count, own_score.save_changes()
Merge_SaveOwn(k) ==
    /\ req[k].pc = "mg_save_own"
    /\ LET r == req[k]
           own == Head(r.todo)
           saved == [own EXCEPT !.song_id = r.target,
                                !.play_count = @ + r.tscores[r.tidx].play_count]
       IN  IF \E x \in scores : x.id = own.id
           THEN /\ scores' = {x \in scores : x.id # own.id} \cup {saved}
                /\ req' = [req EXCEPT ![k] =
                             MergeLoop([@ EXCEPT !.todo = Tail(@)])]
           ELSE /\ scores' = scores
                /\ req' = [req EXCEPT ![k] = IdleReq]
    /\ UNCHANGED <<players, songs, rivalries, leaderboard, nextScoreId, clock,
                   ops, hist>>

\* the target's score is kept: target_score.play_count += own_score.play_count,
\* target_score.save_changes(), then own_score.delete()
Merge_SaveTarget(k) ==
    /\ req[k].pc = "mg_save_target"
    /\ LET r == req[k]
           saved == r.tscores[r.tidx]
       IN  IF \E x \in scores : x.id = saved.id
           THEN /\ scores' = {x \in scores : x.id # saved.id} \cup {saved}
                /\ req' = [req EXCEPT ![k] =
                             [@ EXCEPT !.pc = "sd_zincrby", !.ret = "merge_own",
                                       !.cur = {Head(r.todo)}]]
           ELSE /\ scores' = scores
                /\ req' = [req EXCEPT ![k] = IdleReq]
    /\ UNCHANGED <<players, songs, rivalries, leaderboard, nextScoreId, clock,
                   ops, hist>>

\* no score of that player and league on the target:
\* diesel::update(&own_score).set(song_id.eq(target.id))
Merge_MoveOwn(k) ==
    /\ req[k].pc = "mg_move_own"
    /\ LET r == req[k]
           own == Head(r.todo)
       IN  scores' = {IF x.id = own.id THEN [x EXCEPT !.song_id = r.target]
                      ELSE x : x \in scores}
    /\ req' = [req EXCEPT ![k] = MergeLoop([@ EXCEPT !.todo = Tail(@)])]
    /\ UNCHANGED <<players, songs, rivalries, leaderboard, nextScoreId, clock,
                   ops, hist>>

(***************************************************************************)
(* Command::RefreshSkillPoints (manager/mod.rs).                           *)
(***************************************************************************)

\* players.find(player_to_refresh).first()
Refresh_FindPlayer(k, p) ==
    /\ Free(k)
    /\ ops < MaxOps
    /\ ops' = ops + 1
    /\ req' = [req EXCEPT ![k] =
                 IF p \in DOMAIN players
                 THEN [IdleReq EXCEPT !.op = "refresh", !.pc = "rf_calc",
                                      !.player = p]
                 ELSE IdleReq]
    /\ UNCHANGED <<store, hist>>

\* player.calc_skill_points(&mut conn)
Refresh_Calc(k) ==
    /\ req[k].pc = "rf_calc"
    /\ req' = [req EXCEPT ![k] =
                 [@ EXCEPT !.pc = "rf_zadd",
                           !.skill_points =
                               Player_calc_skill_points(req[k].player, scores)]]
    /\ UNCHANGED <<store, ops, hist>>

\* redis.zadd("leaderboard", None, None, false, false, (skill_points, player))
Refresh_Zadd(k) ==
    /\ req[k].pc = "rf_zadd"
    /\ leaderboard' = Zadd(leaderboard, req[k].player, req[k].skill_points)
    /\ req' = [req EXCEPT ![k] = IdleReq]
    /\ UNCHANGED <<players, songs, scores, rivalries, nextScoreId, clock, ops,
                   hist>>

(***************************************************************************)
(* login_steam: NewPlayer::create_or_update (models/players.rs).           *)
(***************************************************************************)

\* the row a first login inserts: the id comes from the serial sequence (no
\* code deletes a player), account_type has its default
NewPlayerRow(pl, acct, name, avatar) ==
    (Cardinality(DOMAIN pl) + 1) :>
        [username |-> name, account_type |-> "User",
         steam_account_num |-> acct, avatar_url |-> avatar]

\* mutant: a row is inserted at every login
Upsert_InsertAlways(pl, acct, name, avatar) ==
    pl @@ NewPlayerRow(pl, acct, name, avatar)

\* INSERT INTO players .. ON CONFLICT (steam_account_num) DO UPDATE
\* SET username, avatar_url
Upsert(pl, acct, name, avatar) ==
    LET hit == {id \in DOMAIN pl : pl[id].steam_account_num = acct}
    IN  IF hit = {} THEN pl @@ NewPlayerRow(pl, acct, name, avatar)
        ELSE [id \in DOMAIN pl |->
                IF id \in hit
                THEN [pl[id] EXCEPT !.username = name, !.avatar_url = avatar]
                ELSE pl[id]]

\* .get_result::<Player>(conn): the id of the row of that account
PlayerResult(pl, acct) ==
    CHOOSE id \in DOMAIN pl : pl[id].steam_account_num = acct

\* NewPlayer::create_or_update: the upsert
Login_Upsert(k, acct, name, avatar) ==
    /\ Free(k)
    /\ ops < MaxOps
    /\ ops' = ops + 1
    /\ LET np == Upsert(players, acct, name, avatar)
       IN  /\ players' = np
           /\ req' = [req EXCEPT ![k] =
                        [IdleReq EXCEPT !.op = "login", !.pc = "lg_zadd",
                                        !.player = PlayerResult(np, acct)]]
    /\ UNCHANGED <<songs, scores, rivalries, leaderboard, nextScoreId, clock,
                   hist>>

\* "If the player doesn't exist in the Redis sorted set, add them with a
\* score of 0": ZADD leaderboard NX 0 id
Login_ZaddNx(k) ==
    /\ req[k].pc = "lg_zadd"
    /\ leaderboard' = ZaddNx(leaderboard, req[k].player)
    /\ req' = [req EXCEPT ![k] = IdleReq]
    /\ UNCHANGED <<players, songs, scores, rivalries, nextScoreId, clock, ops,
                   hist>>

(***************************************************************************)
(* ticket_auth (game/helpers.rs): the Steam ticket cache.                  *)
(***************************************************************************)

\* what Steam's AuthenticateUserTicket reports for a ticket: the steam id of
\* the account it belongs to, nothing for a ticket Steam rejects
SteamIdOfTicket(t) ==
    CASE t = "T1" -> {101}
      [] t = "T2" -> {102}
      [] OTHER -> {}

\* Player::find_by_steam_id: the ids of the players with that steam id
find_by_steam_id(sid) ==
    {p \in DOMAIN players : 100 + players[p].steam_account_num = sid}

\* no key steamticket:<ticket>
NoTicket == [steam_id |-> 0, expires |-> 0]

\* mutant: the cache never answers
CachedTicket_Miss(t) == {}

\* redis.get("steamticket:<ticket>"): the stored steam id, while the key has
\* not expired
CachedTicket(t) ==
    IF tickets[t].expires > wall THEN {tickets[t].steam_id} ELSE {}

IdleGreq ==
    [op |-> "none", pc |-> "idle", ticket |-> "", steam_id |-> 0,
     hit |-> FALSE, error |-> "", status |-> "",
     song |-> 0, league |-> 0, score |-> 0, ride |-> NoRide,
     title |-> <<>>, artist |-> "", mbid |-> "", modifiers |-> <<>>,
     player |-> 0, song_id |-> 0, created |-> FALSE, existing |-> {},
     snums |-> <<>>, friend_nums |-> <<>>, todo |-> {}, found |-> 0]

\* no fetch_song_id request has been answered yet
NoRes == [title |-> <<>>, artist |-> "", mbid |-> "", song_id |-> 0]

\* no request is being handled and no spawned task is left
Quiet == AllFree /\ (\A k \in Slots : greq[k].pc = "idle") /\ spawned = {}

\* a request with payload pl arrives at handler op; ticket_auth reads the
\* cache: on a hit the stored steam id is returned directly
TicketAuth_Get(k, op, t, pl) ==
    /\ Free(k)
    /\ greq[k].pc = "idle"
    /\ ops < MaxOps
    /\ ops' = ops + 1
    /\ LET cached == CachedTicket(t)
       IN  IF cached # {}
           THEN \E sid \in cached :
                  /\ greq' = [greq EXCEPT ![k] =
                                [pl EXCEPT !.op = op, !.pc = "authed",
                                           !.ticket = t, !.steam_id = sid,
                                           !.hit = TRUE]]
                  /\ steam' = [steam EXCEPT ![t].last_use = wall]
           ELSE /\ greq' = [greq EXCEPT ![k] =
                              [pl EXCEPT !.op = op, !.pc = "auth_steam",
                                         !.ticket = t]]
                /\ UNCHANGED steam
    /\ UNCHANGED <<store, req, hist, extra_song_info, nextSongId,
                   nextExtraId, tickets, wall, spawned,
                   lastres>>

\* steam.authenticate_user_ticket(12900, ticket): the call is made; Steam
\* accepts the ticket, rejects it, or cannot be reached.  Every error leaves
\* the handler through `?` as a RouteError with INTERNAL_SERVER_ERROR.
TicketAuth_Steam(k) ==
    /\ greq[k].pc = "auth_steam"
    /\ \/ \E sid \in SteamIdOfTicket(greq[k].ticket) :
             /\ greq' = [greq EXCEPT ![k] = [@ EXCEPT !.pc = "auth_set",
                                                      !.steam_id = sid]]
             /\ steam' = [steam EXCEPT ![greq[k].ticket].calls = @ + 1,
                                       ![greq[k].ticket].accepted = @ + 1]
       \/ /\ SteamIdOfTicket(greq[k].ticket) = {}
          /\ greq' = [greq EXCEPT ![k] =
                        [@ EXCEPT !.pc = "answered", !.error = "rejected",
                                  !.status = "InternalServerError"]]
          /\ steam' = [steam EXCEPT ![greq[k].ticket].calls = @ + 1]
       \/ /\ greq' = [greq EXCEPT ![k] =
                        [@ EXCEPT !.pc = "answered", !.error = "network",
                                  !.status = "InternalServerError"]]
          /\ steam' = [steam EXCEPT ![greq[k].ticket].calls = @ + 1]
    /\ UNCHANGED <<store, req, ops, hist, extra_song_info, nextSongId,
                   nextExtraId, tickets, wall, spawned,
                   lastres>>

\* redis.set("steamticket:<ticket>", steam_id, EX 8 hours)
TicketAuth_Set(k) ==
    /\ greq[k].pc = "auth_set"
    /\ tickets' = [tickets EXCEPT ![greq[k].ticket] =
                     [steam_id |-> greq[k].steam_id,
                      expires |-> wall + TicketTtlHours]]
    /\ steam' = [steam EXCEPT ![greq[k].ticket].last_use = wall,
                              ![greq[k].ticket].stored_at = wall,
                              ![greq[k].ticket].validated = TRUE]
    /\ greq' = [greq EXCEPT ![k] = [@ EXCEPT !.pc = "authed"]]
    /\ UNCHANGED <<store, req, ops, hist, extra_song_info, nextSongId,
                   nextExtraId, wall, spawned,
                   lastres>>

\* the response of the game-facing handler has been sent
Answer(k) ==
    /\ greq[k].pc = "answered"
    /\ greq' = [greq EXCEPT ![k] = IdleGreq]
    /\ lastres' = IF greq[k].op = "fetch_song_id" /\ greq[k].status = "allgood"
                  THEN [title |-> greq[k].title, artist |-> greq[k].artist,
                        mbid |-> greq[k].mbid, song_id |-> greq[k].song_id]
                  ELSE lastres
    /\ UNCHANGED <<store, req, ops, hist, extra_song_info, nextSongId,
                   nextExtraId, tickets, wall, steam, spawned>>

\* time passes
Tick ==
    /\ wall + TickHours <= MaxNow
    /\ wall' = wall + TickHours
    /\ UNCHANGED <<store, req, ops, hist, extra_song_info, nextSongId,
                   nextExtraId, tickets, steam, greq, spawned,
                   lastres>>

\* send_ride after ticket_auth: the handler goes on with the player of the
\* steam id
SendRide_Authed(k) ==
    /\ greq[k].op = "send_ride"
    /\ greq[k].pc = "authed"
    /\ req' = [req EXCEPT ![k] =
                 IF find_by_steam_id(greq[k].steam_id) # {}
                 THEN [IdleReq EXCEPT !.op = "send_ride", !.pc = "sr_find_song",
                                      !.player = greq[k].steam_id - 100,
                                      !.song = greq[k].song,
                                      !.league = greq[k].league,
                                      !.score = greq[k].score,
                                      !.ride = greq[k].ride]
                 ELSE IdleReq]
    /\ greq' = [greq EXCEPT ![k] = IdleGreq]
    /\ UNCHANGED <<store, ops, hist, extra_song_info, nextSongId,
                   nextExtraId, tickets, wall, steam, spawned, lastres>>

\* login_steam after ticket_auth: the player of the steam id is upserted with
\* the persona name of the Steam profile
LoginSteam_Authed(k, name) ==
    /\ greq[k].op = "login_steam"
    /\ greq[k].pc = "authed"
    /\ LET acct == greq[k].steam_id - 100
           np == Upsert(players, acct, name, "a.png")
       IN  /\ players' = np
           /\ req' = [req EXCEPT ![k] =
                        [IdleReq EXCEPT !.op = "login", !.pc = "lg_zadd",
                                        !.player = PlayerResult(np, acct)]]
    /\ greq' = [greq EXCEPT ![k] = IdleGreq]
    /\ UNCHANGED <<songs, scores, rivalries, leaderboard, nextScoreId, clock,
                   ops, hist, extra_song_info, nextSongId, nextExtraId,
                   tickets, wall, steam, spawned, lastres>>

(***************************************************************************)
(* Modifier tags of a song title (util/modifiers.rs).  A title is the      *)
(* sequence of its blank-separated parts.                                  *)
(***************************************************************************)

\* the parts that match \[as-[a-zA-Z0-9]+\]
TagParts == {"[as-steep]", "[as-ultra]"}

\* the capture group of \[as-([a-zA-Z0-9]+)\]
TagContent(w) ==
    CASE w = "[as-steep]" -> "steep"
      [] w = "[as-ultra]" -> "ultra"
      [] OTHER -> ""

\* where the match of (?:\[as-[a-zA-Z0-9]+\]\s*)+$ starts: the first part of
\* the trailing run of tags, Len(title) + 1 when there is no match
TagRegionStart(title) ==
    CHOOSE i \in 1..(Len(title) + 1) :
        /\ \A j \in i..Len(title) : title[j] \in TagParts
        /\ (i = 1 \/ title[i - 1] \notin TagParts)

\* modifiers_from_title: the tags of the trailing region, in their order
modifiers_from_title(title) ==
    LET i == TagRegionStart(title)
    IN  [j \in 1..(Len(title) + 1 - i) |-> TagContent(title[i + j - 1])]

\* the parts joined by one blank
RECURSIVE Unwords(_)
Unwords(parts) ==
    IF parts = <<>> THEN ""
    ELSE IF Len(parts) = 1 THEN parts[1]
    ELSE parts[1] \o " " \o Unwords(Tail(parts))

\* remove_modifiers_from_title: the title before the tag region, trimmed
remove_modifiers_from_title(title) ==
    Unwords(SubSeq(title, 1, TagRegionStart(title) - 1))

\* SQL lower() on the strings that occur
Lower(s) ==
    CASE s = "Dyad" -> "dyad"
      [] s = "Jamie Paige" -> "jamie paige"
      [] s = "JamieP" -> "jamiep"
      [] s = "Sendoff" -> "sendoff"
      [] s = "Inverted Silence" -> "inverted silence"
      [] OTHER -> s

(***************************************************************************)
(* fetch_song_id (game/gameplay.rs) with NewSong::find_or_create inlined,  *)
(* and the MusicBrainz enrichers (models/songs.rs).                        *)
(***************************************************************************)

\* what MusicBrainz holds for a recording MBID
MbInfo(m) ==
    IF m = "6c7e91a6"
    THEN [mbid |-> m, musicbrainz_title |-> "Dyad",
          musicbrainz_artist |-> "Jamie Paige"]
    ELSE [mbid |-> m, musicbrainz_title |-> "Sendoff",
          musicbrainz_artist |-> "Inverted Silence"]

\* lookup_metadata: the first recording the search for the song's title and
\* artist returns, none when nothing matches
lookup_metadata(g) ==
    {m \in Mbids : /\ MbInfo(m).musicbrainz_title = g.title
                   /\ MbInfo(m).musicbrainz_artist = g.artist}

\* the NULL columns a song without extra_song_info row has in a left join
NoExtra ==
    [id |-> 0, song_id |-> 0, mbid |-> "", musicbrainz_title |-> "",
     musicbrainz_artist |-> "", aliases_title |-> <<>>,
     aliases_artist |-> <<>>]

\* the elements of a sequence
Range(f) == {f[i] : i \in DOMAIN f}

\* songs LEFT JOIN extra_song_info
LeftJoin(sngs, extras) ==
    {row \in sngs \X (extras \cup {NoExtra}) :
        \/ row[2].song_id = row[1].id
        \/ /\ row[2] = NoExtra
           /\ ~\E e \in extras : e.song_id = row[1].id}

\* title.eq(t) OR lower(musicbrainz_title).eq(t) OR aliases_title @> [t]
title_predicate(row, t) ==
    \/ row[1].title = t
    \/ row[2].musicbrainz_title # "" /\ Lower(row[2].musicbrainz_title) = t
    \/ t \in Range(row[2].aliases_title)

\* artist.eq(a) OR lower(musicbrainz_artist).eq(a) OR aliases_artist @> [a]
artist_predicate(row, a) ==
    \/ row[1].artist = a
    \/ row[2].musicbrainz_artist # "" /\ Lower(row[2].musicbrainz_artist) = a
    \/ a \in Range(row[2].aliases_artist)

\* the songs the query of find_or_create selects from
FindOrCreateMatches(sngs, extras, t, a) ==
    {row[1] : row \in {x \in LeftJoin(sngs, extras) :
                          title_predicate(x, t) /\ artist_predicate(x, a)}}

\* mutant: the modifiers are not compared
MbidMatches_AnyModifiers(sngs, extras, m, mods) ==
    {g \in sngs : \E e \in extras : e.song_id = g.id /\ e.mbid = m}

\* the songs the MBID query of fetch_song_id selects from: songs INNER JOIN
\* extra_song_info with mbid = m AND modifiers IS NOT DISTINCT FROM mods
MbidMatches(sngs, extras, m, mods) ==
    {g \in sngs : /\ g.modifiers = mods
                  /\ \E e \in extras : e.song_id = g.id /\ e.mbid = m}

\* the payload of a fetch_song_id request
SongIdRequest(title, artist, mbid) ==
    [IdleGreq EXCEPT !.title = title, !.artist = artist, !.mbid = mbid]

\* Player::find_by_steam_id(..).first() and parse_from_title(&payload.song)
FetchSongId_FindPlayer(k) ==
    /\ greq[k].op = "fetch_song_id"
    /\ greq[k].pc = "authed"
    /\ greq' = [greq EXCEPT ![k] =
                 IF find_by_steam_id(greq[k].steam_id) = {}
                 THEN [@ EXCEPT !.pc = "answered",
                                !.status = "InternalServerError"]
                 ELSE [@ EXCEPT !.pc = IF greq[k].mbid # "" THEN "fs_mbid"
                                       ELSE "fs_find",
                                !.player = greq[k].steam_id - 100,
                                !.modifiers =
                                    modifiers_from_title(greq[k].title)]]
    /\ UNCHANGED <<store, req, ops, hist, extra_song_info, nextSongId,
                   nextExtraId, tickets, wall, steam, spawned,
                   lastres>>

\* the lookup by recording MBID and modifiers, .first() of the matches
FetchSongId_MbidLookup(k) ==
    /\ greq[k].pc = "fs_mbid"
    /\ LET found == MbidMatches(songs, extra_song_info, greq[k].mbid,
                                greq[k].modifiers)
       IN  IF found = {}
           THEN greq' = [greq EXCEPT ![k] = [@ EXCEPT !.pc = "fs_find"]]
           ELSE \E g \in found :
                  greq' = [greq EXCEPT ![k] =
                             [@ EXCEPT !.pc = "answered", !.status = "allgood",
                                       !.song_id = g.id]]
    /\ UNCHANGED <<store, req, ops, hist, extra_song_info, nextSongId,
                   nextExtraId, tickets, wall, steam, spawned,
                   lastres>>

\* the task fetch_song_id starts with tokio::spawn when the request carried
\* a recording MBID: add_metadata_mbid on the song it answers with
SpawnedFor(r, id) ==
    IF r.mbid = "" THEN {}
    ELSE {[tid |-> ops, song_id |-> id, mbid |-> r.mbid, pc |-> "am_find",
           existing |-> {}]}

\* find_or_create: the SELECT; a song that matches is the answer
FindOrCreate_Find(k) ==
    /\ greq[k].pc = "fs_find"
    /\ LET found == FindOrCreateMatches(songs, extra_song_info,
                        remove_modifiers_from_title(greq[k].title),
                        greq[k].artist)
       IN  IF found = {}
           THEN /\ greq' = [greq EXCEPT ![k] = [@ EXCEPT !.pc = "fs_insert"]]
                /\ UNCHANGED spawned
           ELSE \E g \in found :
                  /\ greq' = [greq EXCEPT ![k] =
                                [@ EXCEPT !.pc = "answered",
                                          !.status = "allgood",
                                          !.song_id = g.id]]
                  /\ spawned' = spawned \cup SpawnedFor(greq[k], g.id)
    /\ UNCHANGED <<store, req, ops, hist, extra_song_info, nextSongId,
                   nextExtraId, tickets, wall, steam,
                   lastres>>

\* find_or_create: INSERT INTO songs (title, artist, modifiers)
FindOrCreate_Insert(k) ==
    /\ greq[k].pc = "fs_insert"
    /\ songs' = songs \cup
                 {[id |-> nextSongId,
                   title |-> remove_modifiers_from_title(greq[k].title),
                   artist |-> greq[k].artist,
                   modifiers |-> greq[k].modifiers]}
    /\ nextSongId' = nextSongId + 1
    /\ greq' = [greq EXCEPT ![k] =
                  [@ EXCEPT !.pc = "answered", !.status = "allgood",
                            !.song_id = nextSongId, !.created = TRUE]]
    /\ spawned' = spawned \cup SpawnedFor(greq[k], nextSongId)
    /\ UNCHANGED <<players, scores, rivalries, leaderboard, nextScoreId,
                   clock, req, ops, hist, extra_song_info, nextExtraId,
                   tickets, wall, steam,
                   lastres>>

\* add_metadata_mbid, spawned by fetch_song_id: the SELECT of the song's
\* extra_song_info row
AddMetadataMbid_Find(t) ==
    /\ t \in spawned
    /\ t.pc = "am_find"
    /\ LET rows == {e \in extra_song_info : e.song_id = t.song_id}
       IN  \/ /\ rows = {}
              /\ spawned' = (spawned \ {t}) \cup
                              {[t EXCEPT !.pc = "am_write"]}
           \/ \E e \in rows :
                spawned' = (spawned \ {t}) \cup
                             {[t EXCEPT !.pc = "am_write", !.existing = {e}]}
    /\ UNCHANGED <<store, req, ops, hist, extra_song_info, nextSongId,
                   nextExtraId, tickets, wall, steam, greq, lastres>>

\* the columns of MusicBrainzInfo written over a row
WithMbInfo(e, info) ==
    [e EXCEPT !.mbid = info.mbid,
              !.musicbrainz_title = info.musicbrainz_title,
              !.musicbrainz_artist = info.musicbrainz_artist]

\* add_metadata_mbid: lookup_mbid, then UPDATE of the row found or INSERT of
\* a new one; a failed lookup or write ends the task, its error is dropped
AddMetadataMbid_Write(t) ==
    /\ t \in spawned
    /\ t.pc = "am_write"
    /\ spawned' = spawned \ {t}
    /\ \/ UNCHANGED <<extra_song_info, nextExtraId>>
       \/ /\ t.existing # {}
          /\ extra_song_info' =
               {IF \E x \in t.existing : x.id = e.id
                THEN WithMbInfo(e, MbInfo(t.mbid)) ELSE e :
                    e \in extra_song_info}
          /\ UNCHANGED nextExtraId
       \/ /\ t.existing = {}
          /\ \E g \in songs : g.id = t.song_id
          /\ extra_song_info' = extra_song_info \cup
               {WithMbInfo([NoExtra EXCEPT !.id = nextExtraId,
                                           !.song_id = t.song_id],
                           MbInfo(t.mbid))}
          /\ nextExtraId' = nextExtraId + 1
    /\ UNCHANGED <<store, req, ops, hist, nextSongId, tickets, wall, steam,
                   greq, lastres>>

\* auto_add_metadata, called by send_ride for the song of the ride: the
\* SELECT of the song's extra_song_info row; it bails if there is one
AutoAddMetadata_Find(k, s) ==
    /\ Free(k)
    /\ greq[k].pc = "idle"
    /\ ops < MaxOps
    /\ ops' = ops + 1
    /\ \E g \in songs : g.id = s
    /\ greq' = [greq EXCEPT ![k] =
                  IF \E e \in extra_song_info : e.song_id = s
                  THEN IdleGreq
                  ELSE [IdleGreq EXCEPT !.op = "auto_add_metadata",
                                        !.pc = "aa_insert", !.song_id = s]]
    /\ lastres' = NoRes
    /\ UNCHANGED <<store, req, hist, extra_song_info, nextSongId,
                   nextExtraId, tickets, wall, steam, spawned>>

\* the row auto_add_metadata inserts for song g: the columns of the first
\* recording the search returns, NULL columns when it returns none
AutoAddedRow(g, newid) ==
    LET blank == [NoExtra EXCEPT !.id = newid, !.song_id = g.id]
    IN  IF lookup_metadata(g) = {} THEN {blank}
        ELSE {WithMbInfo(blank, MbInfo(m)) : m \in lookup_metadata(g)}

\* auto_add_metadata: lookup_metadata, then INSERT INTO extra_song_info; the
\* lookup or the INSERT may fail
AutoAddMetadata_Insert(k) ==
    /\ greq[k].pc = "aa_insert"
    /\ greq' = [greq EXCEPT ![k] = IdleGreq]
    /\ \/ UNCHANGED <<extra_song_info, nextExtraId>>
       \/ /\ \E g \in songs :
                /\ g.id = greq[k].song_id
                /\ \E row \in AutoAddedRow(g, nextExtraId) :
                     extra_song_info' = extra_song_info \cup {row}
          /\ nextExtraId' = nextExtraId + 1
    /\ UNCHANGED <<store, req, ops, hist, nextSongId, tickets, wall, steam,
                   spawned, lastres>>

\* the variables of the game-facing requests that send_ride leaves alone
\* once the ticket is checked
rest == <<nextSongId, tickets, wall, steam, greq, spawned, lastres>>

\* the variables auto_add_metadata writes
meta == <<extra_song_info, nextExtraId>>

\* send_ride, "Add MusicBrainz metadata, if no extra metadata exists
\* already": the SELECT of auto_add_metadata; with a row the handler goes on
\* to its response, without one it waits for the MusicBrainz search
SendRide_AutoAddFind(k) ==
    /\ req[k].pc = "sr_meta_find"
    /\ req' = [req EXCEPT ![k] =
                 [@ EXCEPT !.pc = IF \E e \in extra_song_info :
                                        e.song_id = req[k].song
                                   THEN "sr_respond"
                                   ELSE "sr_meta_lookup"]]
    /\ UNCHANGED <<store, ops, hist, meta>>

\* mutant: the error of auto_add_metadata leaves the handler
SendRide_AutoAddInsert_Propagate(k) ==
    /\ req[k].pc = "sr_meta_lookup"
    /\ req' = [req EXCEPT ![k] = IdleReq]
    /\ UNCHANGED <<store, ops, hist, meta>>

\* send_ride: lookup_metadata answers and the row is inserted, or one of the
\* two fails and the error is logged; the handler goes on to its response
SendRide_AutoAddInsert(k) ==
    /\ req[k].pc = "sr_meta_lookup"
    /\ \/ /\ req' = [req EXCEPT ![k] = [@ EXCEPT !.pc = "sr_respond",
                                                   !.meta_error = TRUE]]
          /\ UNCHANGED meta
       \/ /\ req' = [req EXCEPT ![k] = [@ EXCEPT !.pc = "sr_respond"]]
          /\ \E g \in songs :
                /\ g.id = req[k].song
                /\ \E row \in AutoAddedRow(g, nextExtraId) :
                     extra_song_info' = extra_song_info \cup {row}
          /\ nextExtraId' = nextExtraId + 1
    /\ UNCHANGED <<store, ops, hist>>

(***************************************************************************)
(* Cancellation: the task is dropped at the suspension point it waits at.  *)
(***************************************************************************)
Cancel(k) ==
    /\ ~Free(k)
    /\ req' = [req EXCEPT ![k] = IdleReq]
    /\ UNCHANGED <<store, ops, hist>>

(***************************************************************************)
(* Specifications.                                                         *)
(***************************************************************************)
SendRideStep(k) ==
    \/ SendRide_FindSong(k) /\ UNCHANGED meta
    \/ SendRide_CurrentTop(k) /\ UNCHANGED meta
    \/ SendRide_Rivalry(k) /\ UNCHANGED meta
    \/ SendRide_IsMutual(k) /\ UNCHANGED meta
    \/ CreateOrUpdate_First(k) /\ UNCHANGED meta
    \/ CreateOrUpdate_ZincrbySub(k) /\ UNCHANGED meta
    \/ CreateOrUpdate_Update(k) /\ UNCHANGED meta
    \/ CreateOrUpdate_Insert(k) /\ UNCHANGED meta
    \/ CreateOrUpdate_ZincrbyAdd(k) /\ UNCHANGED meta
    \/ SendRide_AutoAddFind(k)
    \/ SendRide_AutoAddInsert(k)
    \/ SendRide_Respond(k) /\ UNCHANGED meta

AdminStep(k) ==
    \/ ScoreDelete_Zincrby(k)
    \/ ScoreDelete_Delete(k)
    \/ SongDelete_Load(k)
    \/ SongDelete_DeleteSong(k)
    \/ Merge_FindTarget(k)
    \/ Merge_LoadTarget(k)
    \/ Merge_LoadOwn(k)
    \/ Merge_SaveOwn(k)
    \/ Merge_SaveTarget(k)
    \/ Merge_MoveOwn(k)
    \/ Refresh_Calc(k)
    \/ Refresh_Zadd(k)
    \/ Login_ZaddNx(k)

\* a send_ride request arrives
StartRide(k, songids) ==
    \E p \in Players, s \in songids, l \in SubmitLeagues,
       sc \in ScoreValues, rd \in Rides :
        SendRide_FindPlayer(k, p, s, l, sc, rd)

\* a management command or a login arrives
StartAdmin(k) ==
    \/ \E id \in 1..(nextScoreId - 1) : DeleteScore_Find(k, id)
    \/ \E s \in SongIds : DeleteSong_Find(k, s)
    \/ \E src \in SongIds, tgt \in SongIds : Merge_FindSource(k, src, tgt)
    \/ \E p \in Players : Refresh_FindPlayer(k, p)
    \/ \E p \in Players, name \in Names : Login_Upsert(k, p, name, "a.png")

\* one task at a time, every task runs to its end
Next ==
    /\ UNCHANGED rest
    /\ UNCHANGED sess
    /\ UNCHANGED <<calc, api>>
    /\ \/ AllFree /\ StartRide(1, SongIds) /\ UNCHANGED meta
       \/ AllFree /\ StartAdmin(1) /\ UNCHANGED meta
       \/ SendRideStep(1)
       \/ AdminStep(1) /\ UNCHANGED meta

Spec == Init /\ [][Next]_vars

\* send_ride requests only, one at a time
RidesNext ==
    /\ UNCHANGED rest
    /\ UNCHANGED sess
    /\ UNCHANGED <<calc, api>>
    /\ \/ AllFree /\ StartRide(1, SongIds) /\ UNCHANGED meta
       \/ SendRideStep(1)

SpecRides == Init /\ [][RidesNext]_vars

\* one task at a time on one song; a task may be cancelled at any
\* suspension point
CrashNext ==
    /\ UNCHANGED rest
    /\ UNCHANGED sess
    /\ UNCHANGED <<calc, api>>
    /\ \/ AllFree /\ StartRide(1, {1}) /\ UNCHANGED meta
       \/ /\ AllFree
          /\ \E id \in 1..(nextScoreId - 1) : DeleteScore_Find(1, id)
          /\ UNCHANGED meta
       \/ AllFree /\ (\E p \in Players : Refresh_FindPlayer(1, p))
                  /\ UNCHANGED meta
       \/ SendRideStep(1)
       \/ ScoreDelete_Zincrby(1) /\ UNCHANGED meta
       \/ ScoreDelete_Delete(1) /\ UNCHANGED meta
       \/ Refresh_Calc(1) /\ UNCHANGED meta
       \/ Refresh_Zadd(1) /\ UNCHANGED meta
       \/ Cancel(1) /\ UNCHANGED meta

SpecCrash == Init /\ [][CrashNext]_vars

\* send_ride requests for one song, in flight at the same time
ConcNext ==
    /\ UNCHANGED rest
    /\ UNCHANGED sess
    /\ UNCHANGED <<calc, api>>
    /\ \E k \in Slots :
           \/ /\ \E p \in Players, sc \in ScoreValues :
                    SendRide_FindPlayer(k, p, 1, 2, sc, RideA)
              /\ UNCHANGED meta
           \/ SendRideStep(k)

SpecConc == Init /\ [][ConcNext]_vars

\* the payload of the send_ride request of scenario S1
RidePayload ==
    [IdleGreq EXCEPT !.song = 1, !.league = 2, !.score = 508143,
                     !.ride = RideA]

\* the steps of ticket_auth and of the handlers that follow it
AuthStep(k) ==
    \/ TicketAuth_Steam(k)
    \/ TicketAuth_Set(k)
    \/ Answer(k)
    \/ SendRide_Authed(k)
    \/ \E name \in Names : LoginSteam_Authed(k, name)
    \/ SendRideStep(k) /\ UNCHANGED rest
    \/ Login_ZaddNx(k) /\ UNCHANGED front

\* game requests with a ticket, one at a time, while time passes
AuthNext ==
    /\ UNCHANGED sess
    /\ UNCHANGED <<calc, api>>
    /\ \/ Quiet /\ \E t \in Tickets :
                      TicketAuth_Get(1, "send_ride", t, RidePayload)
       \/ Quiet /\ \E t \in Tickets :
                      TicketAuth_Get(1, "login_steam", t, IdleGreq)
       \/ AuthStep(1)
       \/ Tick

SpecAuth == Init /\ [][AuthNext]_vars

\* game requests with a ticket, in flight at the same time
AuthConcNext ==
    /\ UNCHANGED sess
    /\ UNCHANGED <<calc, api>>
    /\ \E k \in Slots :
           \/ \E t \in {"T1", "TX"} :
                 TicketAuth_Get(k, "send_ride", t, RidePayload)
           \/ TicketAuth_Get(k, "login_steam", "T1", IdleGreq)
           \/ AuthStep(k)

SpecAuthConc == Init /\ [][AuthConcNext]_vars

\* the steps of fetch_song_id
FetchSongIdStep(k) ==
    \/ TicketAuth_Steam(k)
    \/ TicketAuth_Set(k)
    \/ FetchSongId_FindPlayer(k)
    \/ FetchSongId_MbidLookup(k)
    \/ FindOrCreate_Find(k)
    \/ FindOrCreate_Insert(k)
    \/ Answer(k)

\* the steps of the MusicBrainz enrichers
EnrichStep ==
    \/ \E t \in spawned : AddMetadataMbid_Find(t)
    \/ \E t \in spawned : AddMetadataMbid_Write(t)
    \/ AutoAddMetadata_Insert(1)

\* fetch_song_id requests, one at a time, while spawned enrichments run; a
\* send_ride reaches auto_add_metadata for a song
ResolveNext ==
    /\ UNCHANGED sess
    /\ UNCHANGED <<calc, api>>
    /\ \/ /\ greq[1].pc = "idle"
          /\ \E title \in ResolveTitles, artist \in ResolveArtists,
                mbid \in Mbids \cup {""} :
                TicketAuth_Get(1, "fetch_song_id", "T1",
                               SongIdRequest(title, artist, mbid))
       \/ FetchSongIdStep(1)
       \/ \E s \in 1..(nextSongId - 1) : AutoAddMetadata_Find(1, s)
       \/ EnrichStep

SpecResolve == Init /\ [][ResolveNext]_vars

\* fetch_song_id requests in flight at the same time
ResolveConcNext ==
    /\ UNCHANGED sess
    /\ UNCHANGED <<calc, api>>
    /\ \/ \E k \in Slots :
             \/ \E mbid \in {"", "51517639"} :
                   TicketAuth_Get(k, "fetch_song_id", "T1",
                                  SongIdRequest(<<"Dyad">>, "Inverted Silence",
                                                mbid))
             \/ FetchSongIdStep(k)
       \/ \E t \in spawned : AddMetadataMbid_Find(t)
       \/ \E t \in spawned : AddMetadataMbid_Write(t)

SpecResolveConc == Init /\ [][ResolveConcNext]_vars

\* send_ride and fetch_song_id requests, one at a time, while the enrichment
\* tasks spawned by fetch_song_id run
EnrichNext ==
    /\ UNCHANGED sess
    /\ UNCHANGED <<calc, api>>
    /\ \/ /\ AllFree /\ greq[1].pc = "idle"
          /\ \E p \in Players, sc \in {400000, 508143} :
                SendRide_FindPlayer(1, p, 1, 2, sc, RideA)
          /\ UNCHANGED front
       \/ SendRideStep(1) /\ UNCHANGED rest
       \/ \E artist \in {"JamieP", "Inverted Silence"}, mbid \in Mbids :
             TicketAuth_Get(1, "fetch_song_id", "T1",
                            SongIdRequest(<<"Dyad">>, artist, mbid))
       \/ FetchSongIdStep(1)
       \/ \E t \in spawned : AddMetadataMbid_Find(t)
       \/ \E t \in spawned : AddMetadataMbid_Write(t)

SpecEnrich == Init /\ [][EnrichNext]_vars

(***************************************************************************)
(* A failing Redis command inside NewScore::create_or_update.              *)
(***************************************************************************)

\* redis_conn.zincrby(..).await? returns Err: create_or_update returns the
\* error, and the ? after it in send_ride turns it into a RouteError
CreateOrUpdate_ZincrbyErr(k) ==
    /\ req[k].pc \in {"cu_zincrby_sub", "cu_zincrby_add"}
    /\ req' = [req EXCEPT ![k] = [@ EXCEPT !.pc = "sr_internal_error"]]
    /\ UNCHANGED <<store, ops, hist>>

\* From<FE> for RouteError: the request is answered with status 500
SendRide_InternalError(k) ==
    /\ req[k].pc = "sr_internal_error"
    /\ req' = [req EXCEPT ![k] = IdleReq]
    /\ UNCHANGED <<store, ops, hist>>

\* send_ride requests one at a time, Redis may fail on a ZINCRBY
RedisFailNext ==
    /\ UNCHANGED rest
    /\ UNCHANGED sess
    /\ UNCHANGED <<calc, api>>
    /\ \/ AllFree /\ StartRide(1, {1}) /\ UNCHANGED meta
       \/ SendRideStep(1)
       \/ CreateOrUpdate_ZincrbyErr(1) /\ UNCHANGED meta
       \/ SendRide_InternalError(1) /\ UNCHANGED meta

SpecRedisFail == Init /\ [][RedisFailNext]_vars

(***************************************************************************)
(* Sessions (util/session.rs).  A token is 24 random alphanumeric          *)
(* characters: create_session never draws a token it drew before, and a    *)
(* client presents either a token that create_session returned or a string *)
(* that was never drawn.  Days pass between requests, not inside one.      *)
(***************************************************************************)

\* mutant: a key never expires
LiveAt_NoExpiry(key, day) == key.present

\* the key exists on that day: Redis removes a key when its expiry is reached
LiveAt(key, day) ==
    key.present /\ (key.volatile => day < key.expires)

\* JSON.SET session:<token> $ {"player_id": p}, of a key that does not exist
JsonSet(p) ==
    [present |-> TRUE, player_id |-> p, volatile |-> FALSE, expires |-> 0]

\* EXPIRE session:<token> EXPIRE_IN_SECS: nothing when the key does not exist
Expire(key, day) ==
    IF LiveAt(key, day)
    THEN [key EXCEPT !.volatile = TRUE, !.expires = day + SessionTtlDays]
    ELSE NoKey

\* the tokens a client can present
Presentable == {t \in SessionTokens :
                   shist[t].issued_to # 0 \/ ~shist[t].generated}

\* create_session: the token is drawn and JSON.SET stores the session
CreateSession_JsonSet(p) ==
    /\ sreq.pc = "idle"
    /\ ops < MaxOps
    /\ ops' = ops + 1
    /\ \E t \in SessionTokens :
          /\ ~shist[t].generated
          /\ sessions' = [sessions EXCEPT ![t] = JsonSet(p)]
          /\ shist' = [shist EXCEPT ![t].generated = TRUE]
          /\ sreq' = [IdleSreq EXCEPT !.op = "create_session",
                                      !.pc = "cs_expire", !.token = t,
                                      !.player = p]
    /\ UNCHANGED today

\* create_session: EXPIRE, then Ok(token)
CreateSession_Expire ==
    /\ sreq.pc = "cs_expire"
    /\ sessions' = [sessions EXCEPT ![sreq.token] = Expire(@, today)]
    /\ shist' = [shist EXCEPT ![sreq.token].issued_to = sreq.player,
                              ![sreq.token].last_use = today]
    /\ sreq' = IdleSreq
    /\ UNCHANGED <<today, ops>>

\* create_session: redis.expire(..).await? returns Err, no token is returned
CreateSession_ExpireErr ==
    /\ sreq.pc = "cs_expire"
    /\ sreq' = IdleSreq
    /\ UNCHANGED <<sessions, shist, today, ops>>

\* verify_token: JSON.GET session:<token>, Null when there is no key
VerifyToken_JsonGet(t) ==
    /\ sreq.pc = "idle"
    /\ ops < MaxOps
    /\ ops' = ops + 1
    /\ t \in Presentable
    /\ sreq' = [IdleSreq EXCEPT !.op = "verify_token", !.pc = "vt_expire",
                                !.token = t,
                                !.value = IF LiveAt(sessions[t], today)
                                          THEN sessions[t].player_id ELSE 0]
    /\ UNCHANGED <<sessions, shist, today>>

\* verify_token: "refresh expiry", then serde_json::from_value, which fails
\* on Null
VerifyToken_Expire ==
    /\ sreq.pc = "vt_expire"
    /\ sessions' = [sessions EXCEPT ![sreq.token] = Expire(@, today)]
    /\ sreq' = [sreq EXCEPT !.pc = IF sreq.value = 0 THEN "vt_done"
                                    ELSE "vt_player"]
    /\ UNCHANGED <<shist, today, ops>>

\* verify_token: players.find(stored_session.player_id).first(conn)
VerifyToken_FindPlayer ==
    /\ sreq.pc = "vt_player"
    /\ sreq' = [sreq EXCEPT !.pc = "vt_done",
                            !.ok = sreq.value \in DOMAIN players,
                            !.player = sreq.value]
    /\ UNCHANGED <<sessions, shist, today, ops>>

\* Session::from_request_parts: the Session, or "Invalid token" with status
\* UNAUTHORIZED
VerifyToken_Return ==
    /\ sreq.pc = "vt_done"
    /\ shist' = IF sreq.ok THEN [shist EXCEPT ![sreq.token].last_use = today]
                ELSE shist
    /\ sreq' = IdleSreq
    /\ UNCHANGED <<sessions, today, ops>>

\* delete_session: DEL session:<token>
DeleteSession(t) ==
    /\ sreq.pc = "idle"
    /\ ops < MaxOps
    /\ ops' = ops + 1
    /\ t \in Presentable
    /\ sessions' = [sessions EXCEPT ![t] = NoKey]
    /\ shist' = [shist EXCEPT ![t].removed = shist[t].issued_to # 0]
    /\ UNCHANGED <<sreq, today>>

\* delete_player_sessions: SCAN MATCH session:*
DeletePlayerSessions_Scan(p) ==
    /\ sreq.pc = "idle"
    /\ ops < MaxOps
    /\ ops' = ops + 1
    /\ sreq' = [IdleSreq EXCEPT !.op = "delete_player_sessions",
                                !.pc = "dp_next", !.player = p,
                                !.todo = {t \in SessionTokens :
                                            LiveAt(sessions[t], today)}]
    /\ UNCHANGED <<sessions, shist, today>>

\* delete_player_sessions: JSON.GET key $.player_id and the comparison
DeletePlayerSessions_Get ==
    /\ sreq.pc = "dp_next"
    /\ \E t \in sreq.todo :
          sreq' = IF sessions[t].player_id = sreq.player
                  THEN [sreq EXCEPT !.pc = "dp_del", !.token = t]
                  ELSE [sreq EXCEPT !.todo = @ \ {t}]
    /\ UNCHANGED <<sessions, shist, today, ops>>

\* delete_player_sessions: client.del(key)
DeletePlayerSessions_Del ==
    /\ sreq.pc = "dp_del"
    /\ sessions' = [sessions EXCEPT ![sreq.token] = NoKey]
    /\ sreq' = [sreq EXCEPT !.pc = "dp_next", !.todo = @ \ {sreq.token}]
    /\ UNCHANGED <<shist, today, ops>>

\* delete_player_sessions: the stream is exhausted, Ok(())
DeletePlayerSessions_Done ==
    /\ sreq.pc = "dp_next"
    /\ sreq.todo = {}
    /\ shist' = [t \in SessionTokens |->
                   IF shist[t].issued_to = sreq.player
                   THEN [shist[t] EXCEPT !.removed = TRUE] ELSE shist[t]]
    /\ sreq' = IdleSreq
    /\ UNCHANGED <<sessions, today, ops>>

\* days pass between two requests
DayTick ==
    /\ sreq.pc = "idle"
    /\ today + TickDays <= MaxDay
    /\ today' = today + TickDays
    /\ UNCHANGED <<sessions, sreq, shist, ops>>

\* session operations, one at a time, while days pass
SessionNext ==
    /\ UNCHANGED <<store, req, hist, front>>
    /\ UNCHANGED <<calc, api>>
    /\ \/ \E p \in Players : CreateSession_JsonSet(p)
       \/ CreateSession_Expire
       \/ CreateSession_ExpireErr
       \/ \E t \in SessionTokens : VerifyToken_JsonGet(t)
       \/ VerifyToken_Expire
       \/ VerifyToken_FindPlayer
       \/ VerifyToken_Return
       \/ \E t \in SessionTokens : DeleteSession(t)
       \/ \E p \in Players : DeletePlayerSessions_Scan(p)
       \/ DeletePlayerSessions_Get
       \/ DeletePlayerSessions_Del
       \/ DeletePlayerSessions_Done
       \/ DayTick

SpecSession == Init /\ [][SessionNext]_vars

(***************************************************************************)
(* DELETE /scores/{id} (api/scores.rs) behind the Session extractor        *)
(* (util/session.rs), and Command::ChangeAccountType (manager/mod.rs).     *)
(***************************************************************************)

\* enum AccountType
AccountTypes == {"User", "Moderator", "Team"}

\* Command::ChangeAccountType: update(players.find(player_id))
\* .set(account_type.eq(new_type))
ChangeAccountType(p, new_type) ==
    /\ p \in DOMAIN players
    /\ players[p].account_type # new_type
    /\ players' = [players EXCEPT ![p].account_type = new_type]
    /\ UNCHANGED <<songs, scores, rivalries, leaderboard, nextScoreId, clock,
                   req, ops, hist, front, sess, api>>

\* mutant: every account type may delete
IsStaff_Anyone(account_type) == TRUE

\* account_type == AccountType::Moderator || account_type == AccountType::Team
IsStaff(account_type) == account_type \in {"Moderator", "Team"}

\* the request arrives with bearer token t: Session::from_request_parts calls
\* verify_token
DeleteScoreRoute_Session(id, t) ==
    /\ VerifyToken_JsonGet(t)
    /\ api' = [NoApi EXCEPT !.endpoint = "delete_score", !.id = id,
                            !.before = <<scores, leaderboard>>]
    /\ UNCHANGED <<store, req, hist, front>>

\* verify_token goes on
DeleteScoreRoute_Verify ==
    /\ api.endpoint = "delete_score"
    /\ VerifyToken_Expire \/ VerifyToken_FindPlayer
    /\ UNCHANGED <<store, req, hist, front, api>>

\* the extractor returns; without a Session the request is rejected with
\* UNAUTHORIZED; delete_score checks session.player.account_type, then
\* scores.find(id).first() with new_not_found
DeleteScoreRoute_Handle(k) ==
    /\ api.endpoint = "delete_score"
    /\ Free(k)
    /\ VerifyToken_Return
    /\ IF ~sreq.ok
       THEN /\ api' = [api EXCEPT !.status = "Unauthorized", !.role = "none"]
            /\ UNCHANGED req
       ELSE LET ty == players[sreq.player].account_type
                q == [api EXCEPT !.player = sreq.player, !.role = ty]
            IN  IF ~IsStaff(ty)
                THEN /\ api' = [q EXCEPT !.status = "Unauthorized"]
                     /\ UNCHANGED req
                ELSE IF \E x \in scores : x.id = api.id
                THEN /\ api' = q
                     /\ req' = [req EXCEPT ![k] =
                                  [IdleReq EXCEPT
                                     !.op = "delete_score",
                                     !.pc = "sd_zincrby",
                                     !.ret = "delete_score",
                                     !.cur = {x \in scores : x.id = api.id}]]
                ELSE /\ api' = [q EXCEPT !.status = "NotFound"]
                     /\ UNCHANGED req
    /\ UNCHANGED <<store, hist, front>>

\* score.delete(&mut conn, &state.redis), then Ok(())
DeleteScoreRoute_Delete(k) ==
    /\ req[k].op = "delete_score"
    /\ \/ ScoreDelete_Zincrby(k) /\ UNCHANGED api
       \/ ScoreDelete_Delete(k) /\ api' = [api EXCEPT !.status = "OK"]
    /\ UNCHANGED <<front, sess>>

\* rides, logins to the site, changes of account type and DELETE requests,
\* one at a time
ModerateNext ==
    /\ UNCHANGED calc
    /\ \/ /\ AllFree /\ sreq.pc = "idle"
          /\ \E p \in Players, sc \in ScoreValues :
                SendRide_FindPlayer(1, p, 1, 2, sc, RideA)
          /\ api' = NoApi
          /\ UNCHANGED <<front, sess>>
       \/ SendRideStep(1) /\ UNCHANGED <<rest, sess, api>>
       \/ /\ AllFree /\ sreq.pc = "idle"
          /\ \E p \in Players, ty \in AccountTypes : ChangeAccountType(p, ty)
       \/ /\ AllFree
          /\ (\E p \in Players : CreateSession_JsonSet(p))
                \/ CreateSession_Expire
          /\ UNCHANGED <<store, req, hist, front, api>>
       \/ /\ AllFree
          /\ \E id \in 1..2, t \in SessionTokens :
                DeleteScoreRoute_Session(id, t)
       \/ DeleteScoreRoute_Verify
       \/ DeleteScoreRoute_Handle(1)
       \/ DeleteScoreRoute_Delete(1)

SpecModerate == Init /\ [][ModerateNext]_vars

(***************************************************************************)
(* Command::MergeSongs (manager/mod.rs) from its arrival to its end, with  *)
(* the tables as they were when it arrived.                                *)
(***************************************************************************)

\* the command arrives: songs.find(id_to_merge).first()
MergeSongs_Start(k, src, tgt) ==
    /\ Merge_FindSource(k, src, tgt)
    /\ api' = [NoApi EXCEPT !.endpoint = "merge_songs", !.id = src,
                            !.target = tgt,
                            !.before = <<scores, leaderboard>>,
                            !.status = IF \E g \in songs : g.id = src
                                       THEN "" ELSE "Err"]

\* the steps of merge_into and of the Song::delete that ends it; Ok(()) after
\* the song is deleted, the error when a row is not found
MergeSongs_Step(k) ==
    /\ req[k].op = "merge_songs"
    /\ \/ Merge_FindTarget(k)
       \/ Merge_LoadTarget(k)
       \/ Merge_LoadOwn(k)
       \/ Merge_SaveOwn(k)
       \/ Merge_SaveTarget(k)
       \/ Merge_MoveOwn(k)
       \/ ScoreDelete_Zincrby(k)
       \/ ScoreDelete_Delete(k)
       \/ SongDelete_Load(k)
       \/ SongDelete_DeleteSong(k)
    /\ api' = IF req'[k].pc # "idle" THEN api
              ELSE [api EXCEPT !.status = IF req[k].pc = "sg_delete_song"
                                          THEN "OK" ELSE "Err"]

\* rides on two songs and merges, one at a time
MergeNext ==
    /\ UNCHANGED rest
    /\ UNCHANGED sess
    /\ UNCHANGED calc
    /\ \/ /\ AllFree
          /\ StartRide(1, SongIds)
          /\ api' = NoApi
          /\ UNCHANGED meta
       \/ SendRideStep(1) /\ UNCHANGED api
       \/ /\ AllFree
          /\ \E src \in SongIds, tgt \in SongIds : MergeSongs_Start(1, src, tgt)
          /\ UNCHANGED meta
       \/ MergeSongs_Step(1) /\ UNCHANGED meta

SpecMerge == Init /\ [][MergeNext]_vars

\* Command::MergeSongs with new_alias: songs.find(id_to_merge).first()
MergeSongs_StartAlias(k, src, tgt, new_alias) ==
    /\ Free(k)
    /\ ops < MaxOps
    /\ ops' = ops + 1
    /\ \E g \in songs :
          /\ g.id = src
          /\ req' = [req EXCEPT ![k] =
                       [IdleReq EXCEPT !.op = "merge_songs",
                                       !.pc = "mg_find_target",
                                       !.song = src, !.target = tgt,
                                       !.should_alias = new_alias]]
          /\ api' = [NoApi EXCEPT !.endpoint = "merge_songs", !.id = src,
                                  !.target = tgt, !.alias = new_alias,
                                  !.results = <<g.title, g.artist>>,
                                  !.before = <<scores, leaderboard>>]
    /\ UNCHANGED <<store, hist>>

\* merge_into, `if should_alias`: the target's ExtraSongInfo row is loaded.
\* If there is one, the artist and the title are pushed onto clones of its
\* alias lists, which are dropped, and the row is saved as it was loaded;
\* if there is none, a row with the two aliases is inserted
Merge_Alias(k) ==
    /\ req[k].pc = "mg_alias"
    /\ LET rows == {e \in extra_song_info : e.song_id = req[k].target}
           self == api.results
       IN  IF rows # {}
           THEN /\ \E e \in rows :
                      extra_song_info' = (extra_song_info \ {e}) \cup {e}
                /\ UNCHANGED nextExtraId
           ELSE /\ extra_song_info' = extra_song_info \cup
                      {[NoExtra EXCEPT !.id = nextExtraId,
                                       !.song_id = req[k].target,
                                       !.aliases_artist = <<self[2]>>,
                                       !.aliases_title = <<self[1]>>]}
                /\ nextExtraId' = nextExtraId + 1
    /\ req' = [req EXCEPT ![k] = [@ EXCEPT !.pc = "sg_load"]]
    /\ api' = [api EXCEPT !.cause =
                  IF \E e \in extra_song_info : e.song_id = req[k].target
                  THEN "row" ELSE "no row"]
    /\ UNCHANGED <<store, ops, hist>>

\* a fetch_song_id without MBID for the title and the artist of the song
\* that was merged last
ResolveMerged(k) ==
    /\ api.endpoint = "merge_songs"
    /\ api.status = "OK"
    /\ TicketAuth_Get(k, "fetch_song_id", "T1",
                      SongIdRequest(<<api.results[1]>>, api.results[2], ""))
    /\ UNCHANGED api

\* merges with and without aliases, and the resolve of what was merged
AliasNext ==
    /\ UNCHANGED sess
    /\ UNCHANGED calc
    /\ \/ /\ Quiet
          /\ \E src \in 1..(nextSongId - 1), tgt \in 1..(nextSongId - 1),
                new_alias \in BOOLEAN :
                MergeSongs_StartAlias(1, src, tgt, new_alias)
          /\ UNCHANGED front
       \/ MergeSongs_Step(1) /\ UNCHANGED front
       \/ Merge_Alias(1) /\ UNCHANGED rest
       \/ Quiet /\ ResolveMerged(1)
       \/ FetchSongIdStep(1) /\ UNCHANGED api

SpecAlias == Init /\ [][AliasNext]_vars

(***************************************************************************)
(* Song::user_can_edit (models/songs.rs).                                  *)
(***************************************************************************)

\* scores.filter(song_id.eq(self.id)).order(submitted_at.asc()).first():
\* the rows of the song with the earliest submitted_at
FirstScore(rows, s) ==
    {x \in rows : /\ x.song_id = s
                  /\ \A y \in rows : y.song_id = s
                                        => x.submitted_at <= y.submitted_at}

\* user_can_edit of song s for player p: the player is looked up; a
\* Moderator or Team player may edit; otherwise the first score of the song
\* decides, and without a score nobody may
UserCanEdit(p, s) ==
    /\ p \in DOMAIN players
    /\ LET q == [NoApi EXCEPT !.endpoint = "user_can_edit", !.player = p,
                              !.id = s,
                              !.role = players[p].account_type]
       IN  IF players[p].account_type \in {"Moderator", "Team"}
           THEN api' = [q EXCEPT !.status = "true"]
           ELSE IF FirstScore(scores, s) = {}
           THEN api' = [q EXCEPT !.status = "false"]
           ELSE \E first_score \in FirstScore(scores, s) :
                   api' = [q EXCEPT !.status =
                             IF first_score.player_id = p THEN "true"
                             ELSE "false"]
    /\ UNCHANGED <<store, req, ops, hist, front, sess>>

\* rides on one song, changes of account type and calls of user_can_edit,
\* one at a time
EditNext ==
    /\ UNCHANGED calc
    /\ \/ /\ AllFree
          /\ \E p \in Players, sc \in ScoreValues :
                SendRide_FindPlayer(1, p, 1, 2, sc, RideA)
          /\ api' = NoApi
          /\ UNCHANGED <<front, sess>>
       \/ SendRideStep(1) /\ UNCHANGED <<rest, sess, api>>
       \/ /\ AllFree
          /\ \E p \in Players, ty \in AccountTypes : ChangeAccountType(p, ty)
       \/ /\ AllFree
          /\ \E p \in Players : UserCanEdit(p, 1)

SpecEdit == Init /\ [][EditNext]_vars

(***************************************************************************)
(* split_x_separated and join_x_separated (util/game_types.rs).  A string  *)
(* is the sequence of its characters.                                      *)
(***************************************************************************)

DigitChars == <<"0", "1", "2", "3", "4", "5", "6", "7", "8", "9">>

IsDigit(c) == \E i \in 1..10 : DigitChars[i] = c

DigitOf(c) == (CHOOSE i \in 1..10 : DigitChars[i] = c) - 1

\* the decimal digits of a natural number
RECURSIVE NatToString(_)
NatToString(n) ==
    IF n < 10 THEN <<DigitChars[n + 1]>>
    ELSE NatToString(n \div 10) \o <<DigitChars[(n % 10) + 1]>>

\* the decimal digits of the absolute value of a negative i32, i32::MIN
\* included
AbsToString(n) ==
    LET below == 0 - (n + 1)
        last == ((below % 10) + 1) % 10
        quot == (below \div 10) + (IF below % 10 = 9 THEN 1 ELSE 0)
    IN  IF quot = 0 THEN <<DigitChars[last + 1]>>
        ELSE NatToString(quot) \o <<DigitChars[last + 1]>>

\* i32's Display
to_string(n) ==
    IF n < 0 THEN <<"-">> \o AbsToString(n) ELSE NatToString(n)

\* i32::from_str on the digits of a number without a minus sign: checked
\* multiplication and addition, PosOverflow above i32::MAX
RECURSIVE PosValue(_)
PosValue(ds) ==
    IF ds = <<>> THEN [ok |-> TRUE, value |-> 0]
    ELSE LET prev == PosValue(SubSeq(ds, 1, Len(ds) - 1))
             d == DigitOf(ds[Len(ds)])
         IN  IF prev.ok /\ prev.value <= (2147483647 - d) \div 10
             THEN [ok |-> TRUE, value |-> prev.value * 10 + d]
             ELSE [ok |-> FALSE, value |-> 0]

\* i32::from_str on the digits after a minus sign: checked multiplication
\* and subtraction, NegOverflow below i32::MIN
RECURSIVE NegValue(_)
NegValue(ds) ==
    IF ds = <<>> THEN [ok |-> TRUE, value |-> 0]
    ELSE LET prev == NegValue(SubSeq(ds, 1, Len(ds) - 1))
             d == DigitOf(ds[Len(ds)])
             limit == IF d = 0 THEN 2147483647 \div 10
                      ELSE (2147483647 - (d - 1)) \div 10
         IN  IF prev.ok /\ 0 - prev.value <= limit
             THEN [ok |-> TRUE, value |-> prev.value * 10 - d]
             ELSE [ok |-> FALSE, value |-> 0]

\* str::parse::<i32>: an optional sign and at least one digit, in range
parse_i32(str) ==
    LET signed == str # <<>> /\ str[1] \in {"+", "-"}
        digits == IF signed THEN Tail(str) ELSE str
    IN  IF digits # <<>> /\ \A i \in 1..Len(digits) : IsDigit(digits[i])
        THEN IF signed /\ str[1] = "-" THEN NegValue(digits)
             ELSE PosValue(digits)
        ELSE [ok |-> FALSE, value |-> 0]

\* str::split('x'): the pieces between the separators, empty ones included
RECURSIVE SplitX(_)
SplitX(str) ==
    LET xs == {i \in 1..Len(str) : str[i] = "x"}
    IN  IF xs = {} THEN <<str>>
        ELSE LET i == CHOOSE j \in xs : \A l \in xs : j <= l
             IN  <<SubSeq(str, 1, i - 1)>>
                 \o SplitX(SubSeq(str, i + 1, Len(str)))

\* split_x_separated::<i32>
split_x_separated(str) ==
    IF str = <<>> THEN [ok |-> TRUE, list |-> <<>>]
    ELSE LET stripped == IF str[Len(str)] = "x"
                         THEN SubSeq(str, 1, Len(str) - 1) ELSE str
             parts == SplitX(stripped)
         IN  IF \A i \in 1..Len(parts) : parse_i32(parts[i]).ok
             THEN [ok |-> TRUE,
                   list |-> [i \in 1..Len(parts) |->
                               parse_i32(parts[i]).value]]
             ELSE [ok |-> FALSE, list |-> <<>>]

\* [String]::join("x")
RECURSIVE JoinX(_)
JoinX(parts) ==
    IF parts = <<>> THEN <<>>
    ELSE IF Len(parts) = 1 THEN parts[1]
    ELSE parts[1] \o <<"x">> \o JoinX(Tail(parts))

\* join_x_separated: the joined values, then result.push('x')
join_x_separated(v) ==
    JoinX([i \in 1..Len(v) |-> to_string(v[i])]) \o <<"x">>

\* the sequences over S of length at most n
SeqsUpTo(S, n) == UNION {[1..m -> S] : m \in 0..n}

\* the calls made: a list is joined and split again, a string is split
XCalcInputs ==
    {[NoCalc EXCEPT !.fn = "join_split", !.list = v] :
        v \in SeqsUpTo(XValues, MaxListLen)}
    \cup {[NoCalc EXCEPT !.fn = "split", !.str = t] :
             t \in SeqsUpTo(XChars, MaxStrLen)}

\* split_x_separated(join_x_separated(v))
Calc_JoinSplit ==
    /\ calc.fn = "join_split"
    /\ ~calc.done
    /\ LET joined == join_x_separated(calc.list)
           res == split_x_separated(joined)
       IN  calc' = [calc EXCEPT !.done = TRUE, !.out_str = joined,
                                !.ok = res.ok, !.out_list = res.list]

\* split_x_separated(s)
Calc_Split ==
    /\ calc.fn = "split"
    /\ ~calc.done
    /\ LET res == split_x_separated(calc.str)
       IN  calc' = [calc EXCEPT !.done = TRUE, !.ok = res.ok,
                                !.out_list = res.list]

(***************************************************************************)
(* modifiers_from_title and remove_modifiers_from_title                    *)
(* (util/modifiers.rs), on the characters of the title.                    *)
(***************************************************************************)

\* [a-zA-Z0-9], for the characters of the titles
IsAlnum(c) == c \in {"T", "a", "s", "B", "1"}

\* \s, and char::is_whitespace of trim_end
IsSpace(c) == c = " "

\* the first index from i on whose character does not satisfy the class
\* (Len + 1 when there is none)
RECURSIVE SkipAlnum(_, _)
SkipAlnum(str, i) ==
    IF i <= Len(str) /\ IsAlnum(str[i]) THEN SkipAlnum(str, i + 1) ELSE i

RECURSIVE SkipSpace(_, _)
SkipSpace(str, i) ==
    IF i <= Len(str) /\ IsSpace(str[i]) THEN SkipSpace(str, i + 1) ELSE i

\* \[as-([a-zA-Z0-9]+)\] matched at index i: the index after the match, 0
\* when it does not match there
TagEnd(str, i) ==
    LET e == SkipAlnum(str, i + 4)
    IN  IF /\ i + 5 <= Len(str)
           /\ SubSeq(str, i, i + 3) = <<"[", "a", "s", "-">>
           /\ e > i + 4
           /\ e <= Len(str)
           /\ str[e] = "]"
        THEN e + 1 ELSE 0

\* (?:\[as-[a-zA-Z0-9]+\]\s*)+$ matched at index i
RECURSIVE RegionAt(_, _)
RegionAt(str, i) ==
    /\ TagEnd(str, i) # 0
    /\ LET k == SkipSpace(str, TagEnd(str, i))
       IN  k = Len(str) + 1 \/ RegionAt(str, k)

\* full_tag_string_regex.find(title): the start of the leftmost match,
\* Len + 1 when there is no match
RegionStart(str) ==
    LET starts == {i \in 1..Len(str) : RegionAt(str, i)}
    IN  IF starts = {} THEN Len(str) + 1
        ELSE CHOOSE i \in starts : \A j \in starts : i <= j

\* tag_separation_regex.captures_iter: group 1 of the tags from index i on
RECURSIVE Captures(_, _)
Captures(str, i) ==
    IF i > Len(str) THEN <<>>
    ELSE IF TagEnd(str, i) # 0
         THEN <<SubSeq(str, i + 4, TagEnd(str, i) - 2)>>
              \o Captures(str, TagEnd(str, i))
         ELSE Captures(str, i + 1)

\* modifiers_from_title, on characters
ModifiersFromTitle(str) == Captures(str, RegionStart(str))

\* str::trim_end
RECURSIVE TrimEnd(_)
TrimEnd(str) ==
    IF str # <<>> /\ IsSpace(str[Len(str)])
    THEN TrimEnd(SubSeq(str, 1, Len(str) - 1)) ELSE str

\* mutant: the whitespace before the tag region is kept
RemoveModifiersFromTitle_NoTrim(str) ==
    SubSeq(str, 1, RegionStart(str) - 1)

\* remove_modifiers_from_title, on characters
RemoveModifiersFromTitle(str) ==
    IF RegionStart(str) = Len(str) + 1 THEN str
    ELSE TrimEnd(SubSeq(str, 1, RegionStart(str) - 1))

\* the characters of a sequence of pieces
RECURSIVE Concat(_)
Concat(pieces) ==
    IF pieces = <<>> THEN <<>> ELSE Head(pieces) \o Concat(Tail(pieces))

\* the titles the two functions are called with
TitleCalcInputs ==
    {[NoCalc EXCEPT !.fn = "modifiers", !.str = Concat(ps)] :
        ps \in SeqsUpTo(TitlePieces, MaxPieces)}

\* modifiers_from_title(title) and remove_modifiers_from_title(title)
Calc_Modifiers ==
    /\ calc.fn = "modifiers"
    /\ ~calc.done
    /\ calc' = [calc EXCEPT !.done = TRUE,
                            !.out_list = ModifiersFromTitle(calc.str),
                            !.out_str = RemoveModifiersFromTitle(calc.str)]

\* the calls of the pure functions
CalcInputs == XCalcInputs \cup TitleCalcInputs

CalcInit == InitState /\ calc \in CalcInputs

PureNext ==
    /\ UNCHANGED <<store, req, ops, hist, front, sess, api>>
    /\ \/ Calc_JoinSplit
       \/ Calc_Split
       \/ Calc_Modifiers

SpecPure == CalcInit /\ [][PureNext]_vars

(***************************************************************************)
(* send_ride on the form fields as they arrive: trackshape and xstats are  *)
(* strings (game/gameplay.rs).                                             *)
(***************************************************************************)

\* trackshape values: two heights, no height, a height that is not a number
RawShapes == {<<"1", "x", "2", "x">>, <<>>, <<"1", "x", "A", "x">>}

\* xstats values: two numbers, nothing, a number and a letter
RawXstats == {<<"7", ",", "2">>, <<>>, <<"7", ",", "A">>}

\* str::split(','): the pieces between the separators, empty ones included
RECURSIVE SplitComma(_)
SplitComma(str) ==
    LET cs == {i \in 1..Len(str) : str[i] = ","}
    IN  IF cs = {} THEN <<str>>
        ELSE LET i == CHOOSE j \in cs : \A l \in cs : j <= l
             IN  <<SubSeq(str, 1, i - 1)>>
                 \o SplitComma(SubSeq(str, i + 1, Len(str)))

\* payload.xstats.split(',').map(str::parse).collect::<Result<Vec<_>, _>>()
ParseXstats(str) ==
    LET parts == SplitComma(str)
    IN  IF \A i \in 1..Len(parts) : parse_i32(parts[i]).ok
        THEN [ok |-> TRUE,
              list |-> [i \in 1..Len(parts) |-> parse_i32(parts[i]).value]]
        ELSE [ok |-> FALSE, list |-> <<>>]

\* the request arrives with its form fields; Player::find_by_steam_id
SendRide_Raw(k, p, s, l, sc, shape, xs) ==
    /\ Free(k)
    /\ ops < MaxOps
    /\ ops' = ops + 1
    /\ p \in DOMAIN players
    /\ req' = [req EXCEPT ![k] =
                 [IdleReq EXCEPT !.op = "send_ride", !.pc = "sr_find_song",
                                 !.player = p, !.song = s, !.league = l,
                                 !.score = sc, !.ride = RideB,
                                 !.raw_shape = shape, !.raw_xstats = xs,
                                 !.unparsed = TRUE]]
    /\ api' = [NoApi EXCEPT !.endpoint = "send_ride", !.player = p, !.id = s,
                            !.before = <<scores, leaderboard>>]
    /\ UNCHANGED <<store, hist>>

\* songs.find(payload.song_id).first() with
\* .http_error("Song not found", StatusCode::NOT_FOUND)?
SendRide_FindSongAnswer(k) ==
    /\ SendRide_FindSong(k)
    /\ api' = IF \E g \in songs : g.id = req[k].song THEN api
              ELSE [api EXCEPT !.status = "NotFound", !.cause = "song"]

\* the arguments of NewScore::new: split_x_separated(&payload.track_shape)?
\* and the parse of xstats with `?`; an error is turned into a RouteError
\* by From<FE>, with INTERNAL_SERVER_ERROR
SendRide_NewScore(k) ==
    /\ req[k].pc = "cu_first"
    /\ req[k].unparsed
    /\ LET shape == split_x_separated(req[k].raw_shape)
           xs == ParseXstats(req[k].raw_xstats)
       IN  IF shape.ok /\ xs.ok
           THEN /\ req' = [req EXCEPT ![k] =
                             [@ EXCEPT !.unparsed = FALSE,
                                       !.ride.track_shape = shape.list,
                                       !.ride.xstats = xs.list]]
                /\ UNCHANGED api
           ELSE /\ req' = [req EXCEPT ![k] = IdleReq]
                /\ api' = [api EXCEPT !.status = "InternalServerError",
                                      !.cause = "payload"]
    /\ UNCHANGED <<store, ops, hist>>

\* the other steps of send_ride; the response of a request that got through
\* is "allgood"
SendRide_Parsed(k) ==
    /\ req[k].pc # "sr_find_song"
    /\ ~(req[k].pc = "cu_first" /\ req[k].unparsed)
    /\ SendRideStep(k)
    /\ api' = IF req[k].pc = "sr_respond"
              THEN [api EXCEPT !.status = "allgood"] ELSE api

\* send_ride requests with their form fields, one at a time
RawRideNext ==
    /\ UNCHANGED rest
    /\ UNCHANGED sess
    /\ UNCHANGED calc
    /\ \/ /\ AllFree
          /\ \E p \in Players, s \in {1, 3}, sc \in ScoreValues,
                shape \in RawShapes, xs \in RawXstats :
                SendRide_Raw(1, p, s, 2, sc, shape, xs)
          /\ UNCHANGED meta
       \/ SendRide_FindSongAnswer(1) /\ UNCHANGED meta
       \/ SendRide_NewScore(1) /\ UNCHANGED meta
       \/ SendRide_Parsed(1)

SpecRawRide == Init /\ [][RawRideNext]_vars

(***************************************************************************)
(* The paginated endpoints of the JSON API (api/players.rs, api/scores.rs, *)
(* api/songs.rs) and their query extractors (util/validator.rs).           *)
(***************************************************************************)

\* the page and pageSize values a client sends
PageValues == {0, 1, 2}
PageSizeValues == {-1, 0, 1, 50, 51}

\* #[validate(range(min = 1))] page, #[validate(range(min = 1, max = 50))]
\* page_size
Validate(q) == q.page >= 1 /\ q.page_size >= 1 /\ q.page_size <= 50

\* axum's Query<T>: the value is deserialised and handed on
Query(q) == [ok |-> TRUE, value |-> q]

\* ValidatedQuery<T>: the value is deserialised and validated; a violation is
\* RouteError::new_bad_request()
ValidatedQuery(q) ==
    IF Validate(q) THEN [ok |-> TRUE, value |-> q]
    ELSE [ok |-> FALSE, value |-> q]

\* the orders in which a query may return the rows S: by key (a function
\* of the row), descending,
\* rows with the same key in any order
Ordered(S, key) ==
    {f \in [1..Cardinality(S) -> S] :
        /\ \A i, j \in 1..Cardinality(S) : i # j => f[i] # f[j]
        /\ \A i, j \in 1..Cardinality(S) : i < j => key[f[i]] >= key[f[j]]}

\* .offset(o).limit(l) of a query that returns f: PostgreSQL refuses a
\* negative OFFSET or LIMIT, and the error leaves the handler through `?`
OffsetLimit(f, o, l) ==
    IF o < 0 \/ l < 0
    THEN [ok |-> FALSE, rows |-> <<>>]
    ELSE [ok |-> TRUE,
          rows |-> SubSeq(f, o + 1, IF o + l < Len(f) THEN o + l ELSE Len(f))]

\* the response of a handler whose paged query gave res
PageResponse(q, res) ==
    IF res.ok
    THEN [q EXCEPT !.status = "OK", !.results = res.rows]
    ELSE [q EXCEPT !.status = "InternalServerError"]

\* ZREVRANGE leaderboard start stop: the members by score, highest first,
\* members of the same score by id, highest first; a negative index counts
\* from the end
ZRevRange(start, stop) ==
    LET n == Cardinality(DOMAIN leaderboard)
        f == CHOOSE g \in [1..n -> DOMAIN leaderboard] :
                \A i, j \in 1..n :
                    i < j => \/ leaderboard[g[i]] > leaderboard[g[j]]
                             \/ /\ leaderboard[g[i]] = leaderboard[g[j]]
                                /\ g[i] > g[j]
        s0 == IF start < 0 THEN n + start ELSE start
        e0 == IF stop < 0 THEN n + stop ELSE stop
        s1 == IF s0 < 0 THEN 0 ELSE s0
        e1 == IF e0 >= n THEN n - 1 ELSE e0
    IN  IF s1 > e1 \/ s1 >= n THEN <<>> ELSE SubSeq(f, s1 + 1, e1 + 1)

\* a request with page pg and pageSize sz
PageQuery(ep, pg, sz) ==
    [NoApi EXCEPT !.endpoint = ep, !.page = pg, !.page_size = sz]

\* a request is handled: r is its response
ApiCall(r) ==
    /\ ops < MaxOps
    /\ ops' = ops + 1
    /\ api' = r
    /\ UNCHANGED <<store, req, hist, front>>

\* get_player_rankings: Query<GetRankingsParams>, ZREVRANGE, then the players
\* of the ids in that order
GetPlayerRankings(pg, sz) ==
    LET q == Query(PageQuery("get_player_rankings", pg, sz)).value
        ids == ZRevRange((q.page - 1) * q.page_size,
                         q.page * q.page_size - 1)
    IN  ApiCall([q EXCEPT !.status = "OK",
                          !.results = SelectSeq(ids,
                                         LAMBDA i : i \in DOMAIN players)])

\* get_scores, without filter and without sort: Query<GetScoresParams>
GetScores(pg, sz) ==
    LET q == Query(PageQuery("get_scores", pg, sz)).value
    IN  \E f \in Ordered(scores, [x \in scores |-> 0]) :
           ApiCall(PageResponse(q, OffsetLimit(f, (q.page - 1) * q.page_size,
                                               q.page_size)))

\* get_rival_scores of the session of player p, without filter and without
\* sort: Query<GetRivalScoresParams>
GetRivalScores(p, pg, sz) ==
    LET q == [Query(PageQuery("get_rival_scores", pg, sz)).value
                 EXCEPT !.player = p]
        rivals == {x.rival_id : x \in {y \in rivalries : y.challenger_id = p}}
                     \cap DOMAIN players
        rows == {x \in scores : x.player_id \in rivals}
    IN  \E f \in Ordered(rows, [x \in rows |-> 0]) :
           ApiCall(PageResponse(q, OffsetLimit(f, (q.page - 1) * q.page_size,
                                               q.page_size)))

\* get_top_songs: ValidatedQuery<GetTopSongParams>, the songs by their
\* number of scores
GetTopSongs(pg, sz) ==
    LET v == ValidatedQuery(PageQuery("get_top_songs", pg, sz))
        q == v.value
    IN  IF ~v.ok THEN ApiCall([q EXCEPT !.status = "BadRequest"])
        ELSE \E f \in Ordered(songs,
                        [s \in songs |-> Cardinality({x \in scores :
                                                  x.song_id = s.id})]) :
                ApiCall(PageResponse(q,
                           OffsetLimit(f, (q.page - 1) * q.page_size,
                                       q.page_size)))

\* get_song_scores: ValidatedQuery<GetSongScoresParams>, the song, its scores
\* by score
GetSongScores(id, pg, sz) ==
    LET v == ValidatedQuery(PageQuery("get_song_scores", pg, sz))
        q == [v.value EXCEPT !.id = id]
    IN  IF ~v.ok THEN ApiCall([q EXCEPT !.status = "BadRequest"])
        ELSE IF \A s \in songs : s.id # id
        THEN ApiCall([q EXCEPT !.status = "NotFound"])
        ELSE \E f \in Ordered({x \in scores : x.song_id = id},
                              [x \in scores |-> x.score]) :
                ApiCall(PageResponse(q,
                           OffsetLimit(f, (q.page - 1) * q.page_size,
                                       q.page_size)))

\* get_song_shouts: ValidatedQuery<GetSongScoresParams>, the song, its shouts
\* by posted_at; no operation here posts a shout, the table is empty
GetSongShouts(id, pg, sz) ==
    LET v == ValidatedQuery(PageQuery("get_song_shouts", pg, sz))
        q == [v.value EXCEPT !.id = id]
    IN  IF ~v.ok THEN ApiCall([q EXCEPT !.status = "BadRequest"])
        ELSE IF \A s \in songs : s.id # id
        THEN ApiCall([q EXCEPT !.status = "NotFound"])
        ELSE ApiCall(PageResponse(q,
                        OffsetLimit(<<>>, (q.page - 1) * q.page_size,
                                    q.page_size)))

\* rides are submitted and pages are requested, one request at a time
PagesNext ==
    /\ UNCHANGED rest
    /\ UNCHANGED sess
    /\ UNCHANGED calc
    /\ \/ /\ AllFree
          /\ \E p \in Players, sc \in ScoreValues :
                SendRide_FindPlayer(1, p, 1, 2, sc, RideA)
          /\ UNCHANGED <<meta, api>>
       \/ SendRideStep(1) /\ UNCHANGED api
       \/ AllFree /\ UNCHANGED meta /\
             \E pg \in PageValues, sz \in PageSizeValues :
                \/ GetPlayerRankings(pg, sz)
                \/ GetScores(pg, sz)
                \/ \E p \in Players : GetRivalScores(p, pg, sz)
                \/ GetTopSongs(pg, sz)
                \/ \E id \in {1, 3} : GetSongScores(id, pg, sz)
                \/ \E id \in {1, 3} : GetSongShouts(id, pg, sz)

SpecPages == Init /\ [][PagesNext]_vars

(***************************************************************************)
(* steam_sync (game/user.rs).                                              *)
(***************************************************************************)

\* the snums a client submits: the other player, the other player twice, the
\* other player and an account nobody has, the caller's own account, both
\* players, no account, and two strings that are no list of integers
SyncSnums ==
    {<<"2", "x">>, <<"2", "x", "2", "x">>, <<"2", "x", "7", "x">>,
     <<"1", "x">>, <<"1", "x", "2", "x">>, <<>>, <<"x">>,
     <<"2", "x", "A", "x">>}

\* mutant: the ticket is authenticated before snums is looked at
SteamSync_Start_AuthFirst(k, t, sn) ==
    TicketAuth_Get(k, "steam_sync", t, [IdleGreq EXCEPT !.snums = sn])

\* steam_sync: split_x_separated(&payload.snums) with BAD_REQUEST on error,
\* then ticket_auth
SteamSync_Start(k, t, sn) ==
    LET parsed == split_x_separated(sn)
    IN  IF parsed.ok
        THEN TicketAuth_Get(k, "steam_sync", t,
                            [IdleGreq EXCEPT !.snums = sn,
                                             !.friend_nums = parsed.list])
        ELSE /\ Free(k)
             /\ greq[k].pc = "idle"
             /\ ops < MaxOps
             /\ ops' = ops + 1
             /\ greq' = [greq EXCEPT ![k] =
                           [IdleGreq EXCEPT !.op = "steam_sync",
                                            !.pc = "answered",
                                            !.ticket = t, !.snums = sn,
                                            !.error = "snums",
                                            !.status = "BadRequest"]]
             /\ UNCHANGED <<store, req, hist, extra_song_info, nextSongId,
                            nextExtraId, tickets, wall, steam, spawned,
                            lastres>>

\* Player::find_by_steam_id(steam_player).first(): no row is an error that
\* leaves through `?`
SteamSync_FindPlayer(k) ==
    /\ greq[k].op = "steam_sync"
    /\ greq[k].pc = "authed"
    /\ IF find_by_steam_id(greq[k].steam_id) = {}
       THEN greq' = [greq EXCEPT ![k] =
                       [@ EXCEPT !.pc = "answered", !.error = "player",
                                 !.status = "InternalServerError"]]
       ELSE \E p \in find_by_steam_id(greq[k].steam_id) :
               greq' = [greq EXCEPT ![k] = [@ EXCEPT !.pc = "ss_load",
                                                     !.player = p]]
    /\ UNCHANGED <<store, req, ops, hist, extra_song_info, nextSongId,
                   nextExtraId, tickets, wall, steam, spawned, lastres>>

\* players.filter(steam_account_num.eq_any(&friend_nums)).load(): the players
\* whose account number is in the list
SteamSync_LoadFriends(k) ==
    /\ greq[k].op = "steam_sync"
    /\ greq[k].pc = "ss_load"
    /\ LET nums == {greq[k].friend_nums[i] :
                       i \in 1..Len(greq[k].friend_nums)}
           friends == {p \in DOMAIN players :
                          players[p].steam_account_num \in nums}
       IN  greq' = [greq EXCEPT ![k] =
                      [@ EXCEPT !.pc = IF friends = {} THEN "ss_done"
                                       ELSE "ss_insert",
                                !.todo = friends,
                                !.found = Cardinality(friends)]]
    /\ UNCHANGED <<store, req, ops, hist, extra_song_info, nextSongId,
                   nextExtraId, tickets, wall, steam, spawned, lastres>>

\* mutant: the insert replaces the row that exists
SteamSync_InsertRow_Replace(rows, c, r, now) ==
    (rows \ FindRivalry(rows, c, r))
       \cup {[challenger_id |-> c, rival_id |-> r, established_at |-> now]}

\* insert_into(rivalries).values((challenger_id, rival_id))
\* .on_conflict_do_nothing()
SteamSync_InsertRow(rows, c, r, now) ==
    IF FindRivalry(rows, c, r) # {}
    THEN rows
    ELSE rows \cup {[challenger_id |-> c, rival_id |-> r,
                     established_at |-> now]}

\* one turn of `for friend in &friends`, in the order the rows were loaded
SteamSync_Insert(k) ==
    /\ greq[k].op = "steam_sync"
    /\ greq[k].pc = "ss_insert"
    /\ \E f \in greq[k].todo :
          /\ rivalries' = SteamSync_InsertRow(rivalries, greq[k].player, f,
                                              clock)
          /\ greq' = [greq EXCEPT ![k] =
                        [@ EXCEPT !.todo = @ \ {f},
                                  !.pc = IF greq[k].todo = {f}
                                         THEN "ss_done" ELSE "ss_insert"]]
    /\ UNCHANGED <<players, songs, scores, leaderboard, nextScoreId, clock,
                   req, ops, hist, extra_song_info, nextSongId, nextExtraId,
                   tickets, wall, steam, spawned, lastres>>

\* format!("added {} of {} friends", friends.len(), friend_nums.len()): the
\* two numbers are kept in found and in Len(friend_nums)
SteamSync_Respond(k) ==
    /\ greq[k].op = "steam_sync"
    /\ greq[k].pc = "ss_done"
    /\ greq' = [greq EXCEPT ![k] =
                  [@ EXCEPT !.pc = "answered",
                            !.status = "added {} of {} friends"]]
    /\ UNCHANGED <<store, req, ops, hist, extra_song_info, nextSongId,
                   nextExtraId, tickets, wall, steam, spawned, lastres>>

\* steam_sync requests, one at a time, while time passes
SyncNext ==
    /\ UNCHANGED sess
    /\ UNCHANGED <<calc, api>>
    /\ \/ Quiet /\ \E t \in Tickets, sn \in SyncSnums : SteamSync_Start(1, t, sn)
       \/ TicketAuth_Steam(1)
       \/ TicketAuth_Set(1)
       \/ SteamSync_FindPlayer(1)
       \/ SteamSync_LoadFriends(1)
       \/ SteamSync_Insert(1)
       \/ SteamSync_Respond(1)
       \/ Answer(1)
       \/ Tick

SpecSync == Init /\ [][SyncNext]_vars

(***************************************************************************)
(* add_rival and remove_rival (api/rivals.rs).                             *)
(***************************************************************************)

\* add_rival: the rival is looked up, then the rivalry; it is inserted unless
\* it exists (CONFLICT)
AddRival(k, p, r) ==
    /\ Free(k)
    /\ ops < MaxOps
    /\ ops' = ops + 1
    /\ rivalries' = IF /\ r \in DOMAIN players
                       /\ FindRivalry(rivalries, p, r) = {}
                    THEN rivalries \cup {[challenger_id |-> p, rival_id |-> r,
                                          established_at |-> clock]}
                    ELSE rivalries
    /\ UNCHANGED <<players, songs, scores, leaderboard, nextScoreId, clock,
                   req, hist>>

\* remove_rival: the rival is looked up, then the rivalry; it is deleted if
\* it exists (NOT_FOUND otherwise)
RemoveRival(k, p, r) ==
    /\ Free(k)
    /\ ops < MaxOps
    /\ ops' = ops + 1
    /\ rivalries' = rivalries \ FindRivalry(rivalries, p, r)
    /\ UNCHANGED <<players, songs, scores, leaderboard, nextScoreId, clock,
                   req, hist>>

\* send_ride requests for one key, one at a time, while players add and
\* remove rivals
RivalNext ==
    /\ UNCHANGED rest
    /\ UNCHANGED sess
    /\ UNCHANGED <<calc, api>>
    /\ \/ /\ AllFree
          /\ \E p \in Players, sc \in ScoreValues :
                SendRide_FindPlayer(1, p, 1, 2, sc, RideA)
          /\ UNCHANGED meta
       \/ SendRideStep(1)
       \/ /\ AllFree
          /\ \E p \in Players : \E r \in Players \ {p} : AddRival(1, p, r)
          /\ UNCHANGED meta
       \/ /\ AllFree
          /\ \E p \in Players : \E r \in Players \ {p} : RemoveRival(1, p, r)
          /\ UNCHANGED meta

SpecRivals == Init /\ [][RivalNext]_vars

\* the Steam account numbers that log in: one with a player row, one without
LoginAccounts == {1, 7}

Avatars == {"a.png", "b.png"}

\* logins and send_ride requests for one song, one at a time
LoginNext ==
    /\ UNCHANGED rest
    /\ UNCHANGED sess
    /\ UNCHANGED <<calc, api>>
    /\ \/ AllFree /\ StartRide(1, {1}) /\ UNCHANGED meta
       \/ SendRideStep(1)
       \/ /\ AllFree
          /\ \E acct \in LoginAccounts, name \in Names, avatar \in Avatars :
                Login_Upsert(1, acct, name, avatar)
          /\ UNCHANGED meta
       \/ Login_ZaddNx(1) /\ UNCHANGED meta

SpecLogin == Init /\ [][LoginNext]_vars

(***************************************************************************)
(* Properties.                                                             *)
(***************************************************************************)

\* the skill points of the rows of player p, recomputed from the scores table
RowSum(p) == SumSkillPoints({r \in scores : r.player_id = p})

\* C1: in every reachable state there is at most one Score row for each
\* (player_id, song_id, league), also when send_ride requests interleave.
C1_PBUnique ==
    \A r1 \in scores : \A r2 \in scores :
        (/\ r1.player_id = r2.player_id
         /\ r1.song_id = r2.song_id
         /\ r1.league = r2.league) => r1.id = r2.id

\* C2: in every quiescent state reached by non-overlapping operations that ran
\* to their end, leaderboard[p] is the sum of the skill points of p's rows.
C2_SumConsistency ==
    AllFree => \A p \in Players : get_skill_points(p) = RowSum(p)

\* a quiescent state after a merge that combined two scores of a player
C2_Witness ==
    /\ AllFree
    /\ Cardinality(songs) = 1
    /\ \E r \in scores : r.play_count >= 2 /\ get_skill_points(r.player_id) > 0

\* C3: once two send_ride requests of player p for the same (song, league)
\* have completed, however they interleaved, leaderboard[p] is the sum of the
\* skill points of p's rows.
C3_NoDoubleCount ==
    \A p \in Players :
        (/\ AllFree
         /\ \E s \in SongIds, l \in SubmitLeagues :
               /\ hist[p][s][l].attempts >= 2
               /\ Cardinality(KeyRows(scores, p, s, l)) = 1)
        => leaderboard[p] = RowSum(p)

\* C4: once all submissions for a key have completed, however they
\* interleaved, the stored personal best is the highest score submitted.
C4_NoLostUpdate ==
    AllFree =>
        \A p \in Players, s \in SongIds, l \in SubmitLeagues :
            \A r \in KeyRows(scores, p, s, l) :
                (Cardinality(KeyRows(scores, p, s, l)) = 1
                 /\ hist[p][s][l].attempts > 0)
                => r.score = hist[p][s][l].best

\* C5: with one task at a time, at every state, also inside a submission and
\* after a cancellation, leaderboard[p] is at most the sum of the skill points
\* of p's rows; inside a PB-improving submission the decrement precedes the
\* row update and the row is written before the increment.
C5_NeverOverCounts ==
    /\ \A p \in Players : get_skill_points(p) <= RowSum(p)
    /\ \A k \in Slots :
        /\ req[k].pc = "cu_update" =>
             \A e \in req[k].existing :
                 /\ e \in scores
                 /\ get_skill_points(e.player_id) + Score_calc_skill_points(e)
                      <= RowSum(e.player_id)
        /\ req[k].pc = "cu_zincrby_add" =>
             \A n \in req[k].result :
                 /\ n \in scores
                 /\ get_skill_points(n.player_id) + Score_calc_skill_points(n)
                      <= RowSum(n.player_id)

\* a submission was cancelled between the decrement and the increment: the
\* player is left under-counted
C5_Witness ==
    /\ AllFree
    /\ \E p \in Players : get_skill_points(p) < RowSum(p)
    /\ \E r \in scores : r.play_count = 2

\* C6: when send_ride answers dethroned = true, the row of the reported
\* previous leader holds, at that instant, a score below the submitted one.
C6_DethroneSymmetry ==
    \A k \in Slots :
        (req[k].pc = "sr_respond" /\ req[k].beat.dethroned) =>
            \A top \in req[k].current_top :
                \A x \in scores : x.id = top.id => x.score < req[k].score

\* the first submission ever made by player 1 is about to be answered, and it
\* is the one of scenario S1
S1Answered ==
    /\ req[1].pc = "sr_respond"
    /\ req[1].player = 1
    /\ req[1].score = 508143
    /\ req[1].league = 2
    /\ req[1].ride.gold_threshold = 84490
    /\ \A s \in SongIds, l \in SubmitLeagues : hist[1][s][l].attempts = 0

\* C7 as stated: scenario S1 raises leaderboard[p1] from 0 to 1805.
C7_Original == S1Answered => leaderboard[1] = 1805

\* C7, amended: scenario S1 raises leaderboard[p1] from 0 to
\* round((508143 / 84490) * 300) = 1804.
C7_S1SkillPoints == S1Answered => leaderboard[1] = 1804

\* scenario S1 has inserted its row and added its skill points
C7_Witness == S1Answered /\ req[1].existing = {} /\ req[1].result # {}

\* C8: the beatscore of the response: the sentinel when no other player has a
\* score on (song, league), else computed from the highest row of another
\* player, with dethroned = (leader.score < submitted score).
C8_BeatScore ==
    req[1].pc = "sr_respond" =>
        LET r == req[1]
            others == {x \in scores : /\ x.song_id = r.song
                                      /\ x.league = r.league
                                      /\ x.player_id # r.player}
        IN  IF others = {}
            THEN r.beat = [dethroned |-> FALSE, friend |-> FALSE,
                           rival_name |-> "No one", rival_score |-> 143,
                           my_score |-> 0, reign_seconds |-> 0]
            ELSE \E leader \in others :
                    /\ \A o \in others : o.score <= leader.score
                    /\ r.beat.rival_score = leader.score
                    /\ r.beat.rival_name = players[leader.player_id].username
                    /\ r.beat.dethroned = (leader.score < r.score)
                    /\ r.beat.my_score = r.score

\* a submission that ties the leader's score is about to be answered, while
\* the submitter has a row of their own on the song
C8_Witness ==
    /\ req[1].pc = "sr_respond"
    /\ \E x \in scores : /\ x.song_id = req[1].song
                         /\ x.player_id # req[1].player
                         /\ x.score = req[1].score
    /\ \E y \in scores : y.song_id = req[1].song /\ y.player_id = req[1].player
    /\ ~req[1].beat.dethroned
    /\ req[1].beat.rival_score = req[1].score

\* C9: after n send_ride requests of a player for a (song, league) were
\* answered, the one row of that key has play_count = n.
C9_PlayCountCountsAttempts ==
    AllFree =>
        \A p \in Players, s \in SongIds, l \in SubmitLeagues :
            hist[p][s][l].attempts > 0 =>
                /\ Cardinality(KeyRows(scores, p, s, l)) = 1
                /\ \A r \in KeyRows(scores, p, s, l) :
                       r.play_count = hist[p][s][l].attempts

\* the task in slot k is a send_ride that has not yet read its own row
BeforeOwnRead(k) ==
    /\ req[k].op = "send_ride"
    /\ req[k].pc \in {"sr_find_song", "sr_current_top", "sr_rivalry",
                      "sr_is_mutual", "cu_first"}

\* e is the personal best that the submission in slot k does not improve: the
\* stored row of its key before it has read it, the row it has read afterwards
NotImproved(k, e) ==
    /\ req[k].op = "send_ride"
    /\ req[k].score <= e.score
    /\ \/ /\ BeforeOwnRead(k)
          /\ e \in KeyRows(scores, req[k].player, req[k].song, req[k].league)
       \/ e \in req[k].existing

\* C10: no step of a submission whose score is at most the stored personal
\* best of its key (a tie included) changes that row's score, vehicle, feats,
\* track_shape, xstats or gold_threshold, nor the submitter's leaderboard entry.
C10_NonImprovingFrame ==
    [][\A e \in scores :
          NotImproved(1, e)
          => /\ \E n \in scores' :
                   /\ n.id = e.id
                   /\ n.score = e.score
                   /\ n.vehicle = e.vehicle
                   /\ n.feats = e.feats
                   /\ n.track_shape = e.track_shape
                   /\ n.xstats = e.xstats
                   /\ n.gold_threshold = e.gold_threshold
             /\ leaderboard'[e.player_id] = leaderboard[e.player_id]]_vars

\* a submission that ties the stored personal best, with another vehicle and
\* gold threshold, is about to be answered
C10_Witness ==
    /\ req[1].pc = "sr_respond"
    /\ \E e \in req[1].existing :
          /\ e.score = req[1].score
          /\ e.vehicle # req[1].ride.vehicle
          /\ e.gold_threshold # req[1].ride.gold_threshold
          /\ e \in scores

\* the Score rows owned by player q
RowsOf(rows, q) == {r \in rows : r.player_id = q}

\* C11: a send_ride by player p creates or modifies only Score rows owned by
\* p and changes only p's leaderboard entry: in every step, the rows and the
\* leaderboard entry of a player who is not the submitter of a send_ride in
\* flight are unchanged, also when that player is the dethroned leader.
C11_SendRideFrame ==
    [][\A q \in Players :
          (\A k \in Slots : req[k].op = "send_ride" => req[k].player # q)
          => /\ RowsOf(scores', q) = RowsOf(scores, q)
             /\ (q \in DOMAIN leaderboard) = (q \in DOMAIN leaderboard')
             /\ get_skill_points(q)' = get_skill_points(q)]_vars

\* a submission that dethroned the leader has written its row and its skill
\* points and is about to be answered; the leader's row is still there
C11_Witness ==
    /\ req[1].pc = "sr_respond"
    /\ req[1].beat.dethroned
    /\ req[1].result # {}
    /\ \E top \in req[1].current_top :
          /\ top \in scores
          /\ top.player_id # req[1].player
          /\ get_skill_points(top.player_id) > 0

\* C12 as stated (single flight): for requests in flight at the same time
\* with the same, not yet cached ticket, Steam validates the ticket once
\* within the 8-hour window: no ticket is accepted by AuthenticateUserTicket
\* a second time while no time has passed.
C12_SingleFlight ==
    \A t \in Tickets : wall < TicketTtlHours => steam[t].accepted <= 1

\* this step is the cache lookup of a ticket_auth(t) in slot k
AuthArrives(k, t) ==
    /\ greq[k].pc = "idle"
    /\ greq'[k].pc # "idle"
    /\ greq'[k].ticket = t

\* C13: after a successful validation of ticket t, a later ticket_auth(t)
\* made less than 8 hours after the entry was stored returns the stored Steam
\* id without calling Steam; a ticket_auth whose Steam call fails leaves the
\* ticket cache as it is, and a ticket_auth(t) that finds no live entry
\* contacts Steam.
C13_TicketCache ==
    [][/\ \A t \in Tickets :
            AuthArrives(1, t) =>
               IF steam[t].validated
                  /\ wall < steam[t].stored_at + TicketTtlHours
               THEN /\ greq'[1].pc = "authed"
                    /\ greq'[1].steam_id \in SteamIdOfTicket(t)
                    /\ steam'[t].calls = steam[t].calls
               ELSE greq'[1].pc = "auth_steam"
       /\ (greq[1].pc = "auth_steam" /\ greq'[1].error # "")
            => /\ tickets' = tickets
               /\ steam'[greq[1].ticket].calls = steam[greq[1].ticket].calls + 1
      ]_vars

\* ticket T1 was answered from the cache four hours after it was stored; the
\* Steam call of an earlier ticket_auth(T1) had failed and stored nothing
C13_Witness ==
    /\ greq[1].pc = "authed"
    /\ greq[1].hit
    /\ greq[1].ticket = "T1"
    /\ wall = steam["T1"].stored_at + TickHours
    /\ steam["T1"].calls = 2
    /\ steam["T1"].accepted = 1

\* C14 as stated: a request to an authenticated game handler whose ticket
\* Steam rejects is answered with Unauthorized, and one whose Steam call
\* fails on the network with Unavailable.
C14_AuthFailureStatus ==
    \A k \in Slots :
        greq[k].pc = "answered" =>
            /\ greq[k].error = "rejected" => greq[k].status = "Unauthorized"
            /\ greq[k].error = "network" => greq[k].status = "Unavailable"

\* C15 as stated (TTL on read): a cache hit refreshes the expiry of the
\* ticket's key to 8 hours, so a ticket that was validated is sent to Steam
\* again only if it was not used for 8 hours.
C15_TtlOnRead ==
    \A k \in Slots :
        (greq[k].pc = "auth_steam" /\ steam[greq[k].ticket].validated)
        => wall >= steam[greq[k].ticket].last_use + TicketTtlHours

\* the fetch_song_id request in slot k is about to be answered "allgood" and
\* carries the input of the fetch_song_id request answered before it
SameAsLast(k) ==
    /\ greq[k].op = "fetch_song_id"
    /\ greq[k].pc = "answered"
    /\ greq[k].status = "allgood"
    /\ lastres.song_id # 0
    /\ greq[k].title = lastres.title
    /\ greq[k].artist = lastres.artist
    /\ greq[k].mbid = lastres.mbid

\* C16: of two consecutive fetch_song_id resolutions with the same input the
\* second returns the Song id the first returned and creates no Song row.
C16_ResolverIdempotent ==
    SameAsLast(1) => /\ greq[1].song_id = lastres.song_id
                     /\ ~greq[1].created

\* the Song rows that match the input of request r: by recording MBID and
\* modifiers, or by title and artist (names, MusicBrainz names or aliases)
\* with the same modifiers
InputMatches(r) ==
    (IF r.mbid = "" THEN {}
     ELSE MbidMatches(songs, extra_song_info, r.mbid, r.modifiers))
    \cup {g \in FindOrCreateMatches(songs, extra_song_info,
                                     remove_modifiers_from_title(r.title),
                                     r.artist) :
             g.modifiers = r.modifiers}

\* C17 as stated: when the resolver returns, exactly one Song row matches the
\* input, also when fetch_song_id requests with the same input interleave.
C17_ExactlyOneMatch ==
    \A k \in Slots :
        (greq[k].op = "fetch_song_id" /\ greq[k].pc = "answered"
         /\ greq[k].status = "allgood")
        => Cardinality(InputMatches(greq[k])) = 1

\* the second half of C17: a step of add_metadata_mbid or auto_add_metadata
\* leaves the songs table as it is
C17_EnricherFrame ==
    [][((spawned' # spawned /\ greq' = greq)
        \/ \E k \in Slots : greq[k].op = "auto_add_metadata")
       => songs' = songs]_vars

\* C18 as stated: the Song a fetch_song_id request without recording MBID is
\* answered with has the modifiers parsed from the submitted title.
C18_ModifiersMatch ==
    \A k \in Slots :
        (greq[k].op = "fetch_song_id" /\ greq[k].pc = "answered"
         /\ greq[k].status = "allgood" /\ greq[k].mbid = "")
        => \A g \in songs :
              g.id = greq[k].song_id => g.modifiers = greq[k].modifiers

\* the Songs that carry the recording MBID of request r in their
\* ExtraSongInfo and have the modifiers parsed from its title
MbidHits(r) ==
    {g \in songs : /\ g.modifiers = r.modifiers
                   /\ \E e \in extra_song_info :
                         e.song_id = g.id /\ e.mbid = r.mbid}

\* C19: when a fetch_song_id request carries a recording MBID and a Song with
\* that MBID and the parsed modifiers exists, the lookup by MBID answers with
\* the id of such a Song and creates no Song row, whatever title and artist
\* were submitted; it answers with no other Song.
C19_MbidHit ==
    [][(greq[1].pc = "fs_mbid" /\ greq'[1] # greq[1])
       => /\ MbidHits(greq[1]) # {}
             => /\ greq'[1].pc = "answered"
                /\ greq'[1].status = "allgood"
                /\ ~greq'[1].created
                /\ songs' = songs
          /\ greq'[1].pc = "answered"
             => \E g \in MbidHits(greq[1]) : greq'[1].song_id = g.id]_vars

\* scenario S5: the request ("Dyad", "JamieP", 6c7e91a6) is answered with
\* song 2, stored as ("Dyad", "Jamie Paige"), and no song was created
C19_Witness ==
    /\ greq[1].pc = "answered"
    /\ greq[1].title = <<"Dyad">>
    /\ greq[1].artist = "JamieP"
    /\ greq[1].mbid = "6c7e91a6"
    /\ greq[1].song_id = 2
    /\ ~greq[1].created
    /\ \A g \in songs : g.id \in {1, 2}

\* this step answers the request of slot 1, which carries a recording MBID
\* that the lookup by MBID did not find
AnswersAfterMbidMiss ==
    /\ greq[1].mbid # ""
    /\ greq[1].pc \in {"fs_find", "fs_insert"}
    /\ greq'[1].pc = "answered"

\* exactly one add_metadata_mbid task is started in this step, for song id
\* and the recording MBID of the request of slot 1
EnrichmentTriggeredFor(id) ==
    /\ Cardinality(spawned' \ spawned) = 1
    /\ \A t \in spawned' \ spawned :
          t.song_id = id /\ t.mbid = greq[1].mbid /\ t.pc = "am_find"

\* a Song row for the input of the request of slot 1 is created in this step
\* and the request is answered with its id
CreatesSong ==
    /\ Cardinality(songs') = Cardinality(songs) + 1
    /\ songs \subseteq songs'
    /\ \A g \in songs : g.id # greq'[1].song_id
    /\ \E g \in songs' :
          /\ g.id = greq'[1].song_id
          /\ g.title = remove_modifiers_from_title(greq[1].title)
          /\ g.artist = greq[1].artist
          /\ g.modifiers = greq[1].modifiers

\* C20 as stated: when the lookup by MBID finds no Song with the MBID and the
\* parsed modifiers, a new Song row (bare title, artist, modifiers) is
\* created, the request is answered with its id, and MBID enrichment is
\* started for that row only.
C20_Original ==
    [][AnswersAfterMbidMiss
       => CreatesSong /\ EnrichmentTriggeredFor(greq'[1].song_id)]_vars

\* C21 as stated: the enricher runs detached from the request, so no
\* send_ride request that has not been answered yet waits for the MusicBrainz
\* lookup of auto_add_metadata.
C21_Detached ==
    \A k \in Slots : req[k].pc # "sr_meta_lookup"

\* the first half of C21, for fetch_song_id: a request is answered while the
\* add_metadata_mbid task it spawned has not finished
C21_FetchAnsweredWhilePending ==
    /\ greq[1].op = "fetch_song_id"
    /\ greq[1].pc = "answered"
    /\ \E t \in spawned : t.song_id = greq[1].song_id /\ t.mbid = greq[1].mbid

OthersKeep(p) ==
    \A q \in Players \ {p} :
        /\ (q \in DOMAIN leaderboard') = (q \in DOMAIN leaderboard)
        /\ get_skill_points(q)' = get_skill_points(q)

\* C23: the administrative delete of a Score first subtracts the skill
\* points of the row from the leaderboard entry of its owner, leaving the
\* scores table and every other entry alone, and then deletes exactly that
\* row, leaving the leaderboard alone.
C23_AdminDelete ==
    [][\A c \in req[1].cur :
          req[1].op = "delete_score"
          => /\ c \in scores
             /\ req[1].pc = "sd_zincrby"
                => /\ req'[1].pc = "sd_delete"
                   /\ scores' = scores
                   /\ get_skill_points(c.player_id)' =
                        get_skill_points(c.player_id)
                        - Score_calc_skill_points(c)
                   /\ OthersKeep(c.player_id)
             /\ req[1].pc = "sd_delete"
                => /\ req'[1].pc = "idle"
                   /\ scores' = scores \ {c}
                   /\ leaderboard' = leaderboard]_vars

\* an administrative delete has lowered the owner's entry by the skill
\* points of the row and is about to delete the row; the other player has a
\* score and skill points too
C23_Witness ==
    /\ req[1].op = "delete_score"
    /\ req[1].pc = "sd_delete"
    /\ \E c \in req[1].cur :
          /\ c \in scores
          /\ Score_calc_skill_points(c) > 0
          /\ get_skill_points(c.player_id) = RowSum(c.player_id)
                                              - Score_calc_skill_points(c)
          /\ \E o \in scores : /\ o.player_id # c.player_id
                                /\ get_skill_points(o.player_id) > 0

\* C24: Song::delete loads the scores of the song, runs Score::delete on each
\* of them (the owner's leaderboard entry is lowered by the skill points of
\* the row, then the row is deleted) and deletes the song last: when the
\* song is deleted no Score row of it is left and every player's leaderboard
\* entry is again the sum over the rows the player still has.
C24_SongDeleteCascade ==
    [][req[1].op = "delete_song" =>
          /\ req[1].pc = "sg_load"
             => /\ {req'[1].todo[i] : i \in 1..Len(req'[1].todo)} =
                     {x \in scores : x.song_id = req[1].song}
                /\ UNCHANGED store
          /\ req[1].pc = "sd_zincrby"
             => \A c \in req[1].cur :
                   /\ c \in scores
                   /\ c.song_id = req[1].song
                   /\ scores' = scores
                   /\ get_skill_points(c.player_id)' =
                        get_skill_points(c.player_id)
                        - Score_calc_skill_points(c)
                   /\ OthersKeep(c.player_id)
          /\ req[1].pc = "sd_delete"
             => \A c \in req[1].cur :
                   /\ scores' = scores \ {c}
                   /\ leaderboard' = leaderboard
          /\ req[1].pc = "sg_delete_song"
             => /\ \A x \in scores : x.song_id # req[1].song
                /\ \A q \in Players : get_skill_points(q) = RowSum(q)
                /\ songs' = {g \in songs : g.id # req[1].song}
                /\ scores' = scores
                /\ leaderboard' = leaderboard
                /\ req'[1].pc = "idle"]_vars

\* the scores of two players on a song were deleted by the cascade, and the
\* song itself is about to be deleted
C24_Witness ==
    /\ req[1].op = "delete_song"
    /\ req[1].pc = "sg_delete_song"
    /\ \A x \in scores : x.song_id # req[1].song
    /\ \A p \in Players : \E l \in SubmitLeagues :
          hist[p][req[1].song][l].attempts > 0

\* C25: RefreshSkillPoints(p) computes the sum of the skill points of the
\* rows p has and writes it over leaderboard[p], whatever the entry was
\* (also an under-count left by a cancelled submission); no other entry and
\* no row changes, and a refresh of an entry that already holds the sum
\* leaves the leaderboard as it is.  (A refresh that is cancelled before its
\* ZADD writes nothing.)
C25_RefreshRepairs ==
    [][req[1].op = "refresh" =>
          /\ Refresh_Calc(1)
             => /\ req'[1].skill_points = RowSum(req[1].player)
                /\ req'[1].pc = "rf_zadd"
                /\ UNCHANGED store
          /\ Refresh_Zadd(1)
             => /\ req[1].player \in DOMAIN leaderboard'
                /\ leaderboard'[req[1].player] = RowSum(req[1].player)
                /\ OthersKeep(req[1].player)
                /\ scores' = scores
                /\ req'[1].pc = "idle"
                /\ (/\ req[1].player \in DOMAIN leaderboard
                    /\ leaderboard[req[1].player] = RowSum(req[1].player))
                   => leaderboard' = leaderboard]_vars

\* a refresh is about to overwrite an entry that a cancelled submission left
\* below the sum of the player's rows
C25_Witness ==
    /\ req[1].op = "refresh"
    /\ req[1].pc = "rf_zadd"
    /\ get_skill_points(req[1].player) < req[1].skill_points
    /\ req[1].skill_points = RowSum(req[1].player)

\* C26: when the leaderboard update fails after the score row was inserted
\* or updated, send_ride still answers "allgood": a request whose row is
\* written is never answered with an error.
C26_Original ==
    \A k \in Slots :
        (req[k].result # {} /\ req[k].result \subseteq scores)
        => req[k].pc # "sr_internal_error"

\* C27: verify_token(t) yields the session of player p exactly when t was
\* returned by create_session(p), t was created or last verified less than
\* 21 days ago, and no delete_session(t) or delete_player_sessions(p) has
\* removed it; every other verification is rejected (Unauthorized).
\* delete_player_sessions(p) changes no key of another player.
C27_SessionValidity ==
    [][/\ sreq.pc = "vt_done" =>
             \A p \in Players :
                 (sreq.ok /\ sreq.player = p)
                 <=> /\ shist[sreq.token].issued_to = p
                     /\ today < shist[sreq.token].last_use + SessionTtlDays
                     /\ ~shist[sreq.token].removed
       /\ sreq.pc = "vt_done" /\ sreq.ok => sreq.player \in Players
       /\ sreq.op = "delete_player_sessions" =>
             \A t \in SessionTokens :
                 sessions[t].player_id # sreq.player
                 => sessions'[t] = sessions[t]]_vars

\* a token is accepted more than 21 days after its creation, because it was
\* verified in between
C27_Witness ==
    /\ sreq.pc = "vt_done"
    /\ sreq.ok
    /\ today > SessionTtlDays
    /\ shist[sreq.token].issued_to = sreq.player

\* C28: every stored session:<token> key carries an expiry, which lies at
\* most 21 days ahead.
C28_Original ==
    \A t \in SessionTokens :
        LiveAt(sessions[t], today)
        => /\ sessions[t].volatile
           /\ sessions[t].expires - today <= SessionTtlDays

\* C29: the upsert of a login creates a Player row only when no row has the
\* steam_account_num, otherwise it returns the id of the existing row and
\* changes nothing but its username and avatar_url; no steam_account_num has
\* two rows; the upsert does not touch the leaderboard, and the ZADD NX that
\* follows adds the player with score 0 when absent and changes no entry
\* otherwise, so that the player is a member afterwards.
C29_LoginUpsert ==
    [][/\ (req[1].pc = "idle" /\ req'[1].op = "login") =>
             LET id == req'[1].player
                 known == {q \in DOMAIN players :
                              players[q].steam_account_num =
                                  players'[id].steam_account_num}
             IN  /\ id \in DOMAIN players'
                 /\ \A q \in DOMAIN players' \ {id} :
                       q \in DOMAIN players /\ players'[q] = players[q]
                 /\ \A q1 \in DOMAIN players', q2 \in DOMAIN players' :
                       players'[q1].steam_account_num =
                           players'[q2].steam_account_num => q1 = q2
                 /\ known = {} => id \notin DOMAIN players
                 /\ known # {} =>
                       /\ known = {id}
                       /\ DOMAIN players' = DOMAIN players
                       /\ [players'[id] EXCEPT
                              !.username = players[id].username,
                              !.avatar_url = players[id].avatar_url]
                            = players[id]
                 /\ leaderboard' = leaderboard
       /\ req[1].pc = "lg_zadd" =>
             LET p == req[1].player
             IN  /\ p \in DOMAIN leaderboard'
                 /\ p \in DOMAIN leaderboard => leaderboard' = leaderboard
                 /\ p \notin DOMAIN leaderboard =>
                       /\ leaderboard'[p] = 0
                       /\ \A q \in DOMAIN leaderboard :
                             /\ q \in DOMAIN leaderboard'
                             /\ leaderboard'[q] = leaderboard[q]
                 /\ players' = players
                 /\ req'[1].pc = "idle"]_vars

\* a player who has skill points logs in again with another avatar, after
\* the first login of a new Steam account created the third player
C29_Witness ==
    /\ req[1].op = "login"
    /\ req[1].pc = "lg_zadd"
    /\ get_skill_points(req[1].player) > 0
    /\ players[req[1].player].avatar_url = "b.png"
    /\ \E q \in DOMAIN players :
          /\ q \notin Players
          /\ q \in DOMAIN leaderboard
          /\ leaderboard[q] = 0

C32_Original ==
    (calc.fn = "join_split" /\ calc.done)
    => (calc.ok /\ calc.out_list = calc.list)

\* the round trip holds for every list that is not empty: a reachable state
\* violates this only for the empty list
C32_NonEmptyRoundTrip ==
    (calc.fn = "join_split" /\ calc.done /\ calc.list # <<>>)
    => (calc.ok /\ calc.out_list = calc.list)

\* split_x_separated returns an error whenever a piece is not an integer
C32_SplitRejects ==
    (calc.fn = "split" /\ calc.done /\ calc.ok)
    => \/ calc.str = <<>>
       \/ \A piece \in {SplitX(IF calc.str[Len(calc.str)] = "x"
                                THEN SubSeq(calc.str, 1, Len(calc.str) - 1)
                                ELSE calc.str)[i] :
                            i \in 1..Len(SplitX(IF calc.str[Len(calc.str)] = "x"
                                THEN SubSeq(calc.str, 1, Len(calc.str) - 1)
                                ELSE calc.str))} :
             /\ piece # <<>>
             /\ \A j \in 1..Len(piece) : piece[j] \in {"1", "2", "-"}

\* the string ends with a tag [as-<content>]: read from its end, a closing
\* bracket, a run of letters and digits that is not empty, and "[as-"
RECURSIVE AlnumRunStart(_, _)
AlnumRunStart(str, i) ==
    IF i >= 1 /\ IsAlnum(str[i]) THEN AlnumRunStart(str, i - 1) ELSE i + 1

EndsWithTag(str) ==
    /\ str # <<>>
    /\ str[Len(str)] = "]"
    /\ LET b == AlnumRunStart(str, Len(str) - 1)
       IN  /\ b <= Len(str) - 1
           /\ b >= 5
           /\ SubSeq(str, b - 4, b - 1) = <<"[", "a", "s", "-">>

\* the string is the tags with the given contents in their order, each
\* followed by any number of blanks
RECURSIVE IsTagsOf(_, _)
IsTagsOf(str, contents) ==
    IF contents = <<>> THEN str = <<>>
    ELSE LET tag == <<"[", "a", "s", "-">> \o Head(contents) \o <<"]">>
         IN  /\ Len(str) >= Len(tag)
             /\ SubSeq(str, 1, Len(tag)) = tag
             /\ IsTagsOf(SubSeq(str, SkipSpace(str, Len(tag) + 1), Len(str)),
                         Tail(contents))

\* C33: for every title, parse returns the contents of the tags of the
\* trailing tag region in their order, and the empty list when the title does
\* not end in a tag; strip returns the title without the region and without
\* trailing whitespace, and the title itself when there is no region;
\* parse(strip(t)) is empty and strip(strip(t)) = strip(t).
C33_ModifierParser ==
    (calc.fn = "modifiers" /\ calc.done) =>
        LET t == calc.str
            mods == calc.out_list
            bare == calc.out_str
        IN  /\ (mods = <<>>) <=> ~EndsWithTag(TrimEnd(t))
            /\ mods = <<>> => bare = t
            /\ mods # <<>> =>
                  /\ Len(bare) < Len(t)
                  /\ SubSeq(t, 1, Len(bare)) = bare
                  /\ bare = <<>> \/ ~IsSpace(bare[Len(bare)])
                  /\ ~EndsWithTag(bare)
                  /\ IsTagsOf(SubSeq(t, SkipSpace(t, Len(bare) + 1), Len(t)),
                              mods)
                  /\ \A i \in 1..Len(mods) :
                        /\ mods[i] # <<>>
                        /\ \A j \in 1..Len(mods[i]) : IsAlnum(mods[i][j])
            /\ ModifiersFromTitle(bare) = <<>>
            /\ RemoveModifiersFromTitle(bare) = bare

\* the title "T [as-a][as-B1]" was parsed into two modifiers and stripped
\* to "T"
C33_Witness ==
    /\ calc.fn = "modifiers"
    /\ calc.done
    /\ calc.out_list = << <<"a">>, <<"B", "1">> >>
    /\ calc.out_str = <<"T">>
    /\ calc.str[2] = " "


\* the steam_sync request of slot k, if it has one
SyncOf(k) == greq[k].op = "steam_sync" /\ greq[k].pc # "answered"

\* the players a ticket stands for
CallerOf(t) == UNION {find_by_steam_id(sid) : sid \in SteamIdOfTicket(t)}

\* the account numbers a request names
SubmittedNums(sn) ==
    LET l == split_x_separated(sn).list IN {l[i] : i \in 1..Len(l)}

\* C31: a step of steam_sync keeps every rivalry row as it is, established_at
\* included; every row it adds has the caller as challenger and, as rival,
\* an existing player whose account number is in the submitted list; no two
\* rows share a key, so a pair that is already a rivalry is never added a
\* second time and a repeated steam_sync changes nothing; the answer counts
\* the submitted account numbers as Y
C31_SteamSync ==
    [][/\ rivalries \subseteq rivalries'
       /\ \A x \in rivalries' \ rivalries :
             /\ SyncOf(1)
             /\ x.challenger_id \in CallerOf(greq[1].ticket)
             /\ x.rival_id \in DOMAIN players
             /\ players[x.rival_id].steam_account_num
                   \in SubmittedNums(greq[1].snums)
       /\ \A x, y \in rivalries' :
             (x.challenger_id = y.challenger_id /\ x.rival_id = y.rival_id)
                => x = y
       /\ SteamSync_Respond(1) =>
             /\ greq'[1].status = "added {} of {} friends"
             /\ Len(greq'[1].friend_nums)
                   = Len(split_x_separated(greq[1].snums).list)]_vars

\* C31 witness: player 1 has synced its own account and player 2: the
\* rivalry with itself is new, the one with player 2 is as old as it was
C31_Witness ==
    /\ greq[1].op = "steam_sync"
    /\ greq[1].pc = "answered"
    /\ greq[1].status = "added {} of {} friends"
    /\ greq[1].player = 1
    /\ greq[1].found = 2
    /\ Len(greq[1].friend_nums) = 2
    /\ [challenger_id |-> 1, rival_id |-> 1, established_at |-> clock]
          \in rivalries
    /\ [challenger_id |-> 1, rival_id |-> 2, established_at |-> 0]
          \in rivalries

\* C40: a steam_sync whose snums is not a list of integers is answered
\* BadRequest in its first step, which calls neither Steam nor the ticket
\* cache and leaves the rivalries alone; such a request is never found at any
\* later step of the handler
C40_ValidateFirst ==
    [][\A k \in Slots :
          (/\ greq[k].pc = "idle"
           /\ greq'[k].op = "steam_sync"
           /\ ~split_x_separated(greq'[k].snums).ok)
             => /\ greq'[k].pc = "answered"
                /\ greq'[k].status = "BadRequest"
                /\ UNCHANGED <<steam, tickets, rivalries>>]_vars

\* C40 witness: a request with snums "2xAx" has been answered BadRequest and
\* Steam was never asked about its ticket
C40_Witness ==
    /\ greq[1].op = "steam_sync"
    /\ greq[1].pc = "answered"
    /\ greq[1].status = "BadRequest"
    /\ greq[1].snums = <<"2", "x", "A", "x">>
    /\ steam[greq[1].ticket].calls = 0
    /\ steam[greq[1].ticket].last_use = 0


\* C34 (as stated): a request to a paginated endpoint with page < 1 or with
\* pageSize outside 1..50 is answered BadRequest and carries no result page
C34_Original ==
    (api.endpoint # "none" /\ ~Validate(api))
       => api.status = "BadRequest" /\ api.results = <<>>

\* the endpoints that take their query through ValidatedQuery answer
\* BadRequest, without a page, to every such request
C34_ValidatedEndpoints ==
    (/\ api.endpoint \in {"get_top_songs", "get_song_scores",
                          "get_song_shouts"}
     /\ ~Validate(api))
       => api.status = "BadRequest" /\ api.results = <<>>

\* C35 (as stated): a send_ride that fails has created or changed no score
\* row and no leaderboard entry; it fails with NotFound when the song id is
\* unknown and with BadRequest when trackshape or xstats is no list of
\* integers
C35_Original ==
    (api.endpoint = "send_ride" /\ api.cause # "")
       => /\ api.before = <<scores, leaderboard>>
          /\ api.cause = "song" => api.status = "NotFound"
          /\ api.cause = "payload" => api.status = "BadRequest"

\* a send_ride that fails has created or changed no score row and no
\* leaderboard entry, and an unknown song id fails with NotFound
C35_FailureKeepsState ==
    (api.endpoint = "send_ride" /\ api.cause # "")
       => /\ api.before = <<scores, leaderboard>>
          /\ api.cause = "song" => api.status = "NotFound"

\* C36: a DELETE /scores/{id} whose session is not valid or belongs to a
\* player of account type User is answered Unauthorized; a request answered
\* Unauthorized or NotFound has changed no score row and no leaderboard
\* entry; NotFound goes to a Moderator or Team player and only when no score
\* has the id; scores and leaderboard change only for a Moderator or Team
\* player
C36_ModeratorOnly ==
    api.endpoint = "delete_score" =>
       /\ api.role \in {"none", "User"} => api.status = "Unauthorized"
       /\ api.status \in {"Unauthorized", "NotFound"}
             => api.before = <<scores, leaderboard>>
       /\ api.status = "Unauthorized" => api.role \in {"none", "User"}
       /\ api.status = "NotFound"
             => /\ api.role \in {"Moderator", "Team"}
                /\ \A x \in scores : x.id # api.id
       /\ api.before # <<scores, leaderboard>>
             => api.role \in {"Moderator", "Team"}

\* C36 witness: a player of type User with a valid session has asked for the
\* deletion of a score that exists and was answered Unauthorized
C36_Witness ==
    /\ api.endpoint = "delete_score"
    /\ api.status = "Unauthorized"
    /\ api.role = "User"
    /\ api.player \in DOMAIN players
    /\ \E x \in scores : x.id = api.id

\* the rows of song s, player p and league l in the table S
KeyRowsOf(S, s, p, l) ==
    {x \in S : x.song_id = s /\ x.player_id = p /\ x.league = l}

\* what C37 says of a finished merge of song src into song tgt, B and L
\* being the scores and the leaderboard when the command arrived
MergedAsSpecified(src, tgt, B, L) ==
    /\ \A p \in Players : \A l \in SubmitLeagues :
          LET own == KeyRowsOf(B, src, p, l)
              tg == KeyRowsOf(B, tgt, p, l)
              now == KeyRowsOf(scores, tgt, p, l)
          IN  /\ (own # {} /\ tg # {}) =>
                    \E o \in own : \E t \in tg :
                       now = {IF t.score < o.score
                              THEN [o EXCEPT !.song_id = tgt,
                                             !.play_count =
                                                o.play_count + t.play_count]
                              ELSE [t EXCEPT !.play_count =
                                                o.play_count + t.play_count]}
              /\ (own # {} /\ tg = {}) =>
                    now = {[o EXCEPT !.song_id = tgt] : o \in own}
    /\ \A p \in Players :
          LET discarded ==
                 {x \in B : \E l \in SubmitLeagues :
                     \E o \in KeyRowsOf(B, src, p, l) :
                        \E t \in KeyRowsOf(B, tgt, p, l) :
                           x = IF t.score < o.score THEN t ELSE o}
          IN  get_skill_points(p) = L[p] - SumSkillPoints(discarded)
    /\ \A g \in songs : g.id # src
    /\ \A x \in scores : x.song_id # src
    /\ \A p \in Players : get_skill_points(p) = RowSum(p)

\* C37 (as stated): after merge_into(source -> target) a key with a score on
\* both songs has one score on the target, the higher one (the target's on a
\* tie) with the sum of the play counts, and the other one's skill points are
\* taken off the leaderboard; a score of the source alone is moved unchanged;
\* the source song and its scores are gone, and the leaderboard matches the
\* rows
C37_Original ==
    (api.endpoint = "merge_songs" /\ api.status = "OK")
       => MergedAsSpecified(api.id, api.target, api.before[1], api.before[2])

\* the same for a merge of a song into another song
C37_DistinctSongs ==
    (api.endpoint = "merge_songs" /\ api.status = "OK"
        /\ api.id # api.target)
       => MergedAsSpecified(api.id, api.target, api.before[1], api.before[2])

\* the merge that finished last was one of a song into another song, with
\* should_alias
AliasMergeDone ==
    /\ api.endpoint = "merge_songs"
    /\ api.status = "OK"
    /\ api.alias
    /\ api.id # api.target

\* a fetch_song_id without MBID for the merged title and artist was answered
ResolvedMerged(k) ==
    /\ greq[k].op = "fetch_song_id"
    /\ greq[k].pc = "answered"
    /\ greq[k].status = "allgood"
    /\ greq[k].mbid = ""
    /\ greq[k].title = <<api.results[1]>>
    /\ greq[k].artist = api.results[2]

\* what C38 says after such a merge: the target has the source's title and
\* artist among its aliases, and the resolve of them answers with the target
\* and creates no song
AliasedAsSpecified ==
    /\ \E e \in extra_song_info :
          /\ e.song_id = api.target
          /\ api.results[1] \in Range(e.aliases_title)
          /\ api.results[2] \in Range(e.aliases_artist)
    /\ \A k \in Slots :
          ResolvedMerged(k) => greq[k].song_id = api.target /\ ~greq[k].created

\* C38 (as stated): after merge_into with should_alias the source's title and
\* artist are among the target's aliases, whether or not the target had an
\* ExtraSongInfo row, and a later resolve without MBID of that title and
\* artist answers with the target and creates no song
C38_Original == AliasMergeDone => AliasedAsSpecified

\* the same when the target had no ExtraSongInfo row before the merge
C38_TargetWithoutRow ==
    (AliasMergeDone /\ api.cause = "no row") => AliasedAsSpecified

\* the players who set the first score on song s: score rows are numbered
\* in the order of their insertion and keep their id when they are improved
FirstScorers(s) ==
    {x.player_id : x \in {y \in scores :
                             /\ y.song_id = s
                             /\ \A z \in scores : z.song_id = s
                                                     => y.id <= z.id}}

\* C39 (as stated): user_can_edit answers true for a Moderator or Team
\* player, and for a User exactly when that player set the first score on
\* the song, whatever was submitted on the song since
C39_Original ==
    api.endpoint = "user_can_edit" =>
       (api.status = "true"
           <=> \/ api.role \in {"Moderator", "Team"}
               \/ api.player \in FirstScorers(api.id))

\* user_can_edit answers true for a Moderator or Team player, and for a User
\* exactly when that player holds the score of the song with the earliest
\* submitted_at
C39_EarliestSubmittedAt ==
    api.endpoint = "user_can_edit" =>
       (api.status = "true"
           <=> \/ api.role \in {"Moderator", "Team"}
               \/ \E x \in scores :
                     /\ x.song_id = api.id
                     /\ x.player_id = api.player
                     /\ \A y \in scores : y.song_id = api.id
                                             => x.submitted_at <= y.submitted_at)

====
